---- MODULE Spec2Model ----
(***************************************************************************)
(* Model of the retrying fetch and market-price resolution layer of        *)
(* he-tokens-snapshot (src/hive_engine_utils.py).                          *)
(*                                                                         *)
(* Units.  Sleep lengths are kept as a whole number of seconds (`dur`)     *)
(* plus a jitter counted in half seconds (`jitter`, 1 = 0.5 s .. 3 = 1.5   *)
(* s).  Prices are counted in half HIVE (Unit = 1.0 HIVE) so that the      *)
(* average of two whole-HIVE book prices is exact.                         *)
(***************************************************************************)
EXTENDS Integers, Sequences, FiniteSets, TLC

\* ------------------------------------------------------------------ bounds
MaxRetries == 4
MaxDelay == 3
MaxPages == 2

\* the retry budgets and base delays a caller passes to fetch_from_hive_engine
RetryBudgets == 0..MaxRetries
Delays == {0, 1, MaxDelay}

\* random.uniform(0.5, 1.5), in half seconds
JitterLo == 1
JitterHi == 3
Jitters == JitterLo..JitterHi

\* ---------------------------------------------------------- error messages
\* str(e).lower() is modelled by the set of the marker substrings it contains
M503 == {"503"}
MTimeout == {"timeout"}
M429 == {"429"}
MRateLimitTimeout == {"rate limit", "timeout"}
MOther == {"invalid json"}
MNotExists == {"does not exists"}

FetchErrorMessages == {M503, MTimeout, M429, MRateLimitTimeout, MOther}

Has(error_msg, marker) == marker \in error_msg

\* ------------------------------------------------------- provider payloads
BookRecords == { [price |-> p] : p \in {0, 6} }
BookPayloads == { <<>> } \cup { <<r>> : r \in BookRecords }

\* outcome of one api.find call: a list, None, or a raised Exception
FindOutcomes ==
    [kind : {"ok"}, val : BookPayloads, msg : {{}}]
      \cup [kind : {"none"}, val : {<<>>}, msg : {{}}]
      \cup [kind : {"exc"}, val : {<<>>}, msg : FetchErrorMessages]

\* ------------------------------------------------ get_market_info inputs
\* price 1.0 HIVE in model units (half HIVE)
Unit == 2

\* defaults of get_market_info (line 102) and fetch_from_hive_engine (line 24)
MarketRetries == 3
MarketDelay == 2
DefaultFetchRetries == 5
DefaultFetchDelay == 3

\* trade_batch_limit, scaled down from 1000
BatchLimit == 2

Symbols == {"SWAP.HIVE", "LEO"}

\* int(time.time()) during a call, and the 24 h window of get_24h_volume
Now == 100000
DaySeconds == 86400

MetricsRecords == [lastPrice : {0, 4}, volume : {7}]
\* api.find as fetch_market_metrics calls it: a list, whose emptiness line 97
\* tests (None takes the branch of the empty list), or an Exception
MetricsOutcomes ==
    [kind : {"ok"}, val : {<<>>} \cup { <<r>> : r \in MetricsRecords }, msg : {{}}]
      \cup [kind : {"exc"}, val : {<<>>}, msg : {MTimeout}]

Trades ==
    { [price |-> 6, volume |-> 5, timestamp |-> Now - DaySeconds],
      [price |-> 0, volume |-> 3, timestamp |-> Now - DaySeconds - 1] }
PagesOfLength(n) == [1..n -> Trades]
\* market.get_trades_history: a page of at most `limit` trades, or an Exception;
\* a full page is followed by another call, so only `mayBeFull` allows one
TradesOutcomes(limit, mayBeFull) ==
    [kind : {"ok"},
     val : UNION { PagesOfLength(n) : n \in 0..(IF mayBeFull THEN limit ELSE limit - 1) },
     msg : {{}}]
      \cup [kind : {"exc"}, val : {<<>>}, msg : {MOther, MNotExists}]

OrderBookPayloads == { <<>>, <<[price |-> 0]>>, <<[price |-> 6]>>, <<[price |-> 10]>> }
OrderBookOutcomes ==
    [kind : {"ok"}, val : OrderBookPayloads, msg : {{}}]
      \cup [kind : {"exc"}, val : {<<>>}, msg : {MOther}]

\* what api.find yields to the fetches get_market_info makes
MarketFindOutcomes ==
    [kind : {"ok"}, val : BookPayloads, msg : {{}}]
      \cup [kind : {"exc"}, val : {<<>>}, msg : {MTimeout}]
MarketJitters == {JitterLo}

\* -------------------------------------------------------------- the state
VARIABLES
    f_pc,        \* position in fetch_from_hive_engine
    f_retries,   \* its `retries` argument
    f_delay,     \* its `delay` argument
    f_table,     \* its `table` argument
    f_attempt,   \* loop variable `attempt`
    f_result,    \* what the call returned (kind "list"), or how it ended
    log,         \* remote calls and sleeps of the running operation, in order
    market_cache,  \* the module's memo: symbol -> <<price, volume>>
    m_pc,        \* position in get_market_info
    m_symbol,    \* its `symbol` argument
    m_attempt,   \* loop variable `attempt` of the trade-history loop
    offset,      \* local `offset` of the pagination
    all_trades,  \* local `all_trades`
    m_ret,       \* the pair get_market_info returned
    yields,      \* the prices the sources of this call computed, in order
    cache_at_call,  \* market_cache as it was when the call, or clear_caches, started
    registry,    \* the pools the provider holds, in its storage order
    p_pc,        \* position in get_diesel_pool_info / get_user_pool_portfolio
    p_caller,    \* "direct", or "portfolio" for a call from get_user_pool_portfolio
    p_pair,      \* argument `token_pair`, as its split(":")
    p_retries,   \* argument `retries`
    p_delay,     \* argument `delay`
    p_attempt,   \* loop variable `attempt`
    p_step,      \* which of the four methods comes next
    pool_info,   \* local `pool_info`: <<>> for None, <<record>> otherwise
    p_ret,       \* what get_diesel_pool_info returned: <<>> for None, <<dict>>
    p_log,       \* fetches and sleeps of the running get_diesel_pool_info
    p_answered,  \* no fetch of the running call came back empty by exhaustion
    p_last,      \* per pair, the result of the last call the provider fully answered
    p_todo,      \* positions get_user_pool_portfolio has still to visit
    p_holdings,  \* its `pool_holdings`: pair -> shares
    pool_data,   \* its result list
    p_values,    \* what calculate_pool_token_values returned last
    clock,       \* time.time(), in seconds
    cu_price_cache,   \* cache_utils.price_cache: key -> entry
    cu_market_cache,  \* cache_utils.market_cache
    cu_diesel_cache,  \* cache_utils.diesel_cache
    l1_cache,    \* the mapping layer1_holdings imports as l1_cache
    l1_defined,  \* modules.cache_utils defines the name l1_cache
    price_file,  \* __cache/price_cache.json
    market_file, \* __cache/market_cache.json
    diesel_file, \* __cache/diesel_cache.json
    c_op,        \* the last cache operation, with what it saw
    h_call,      \* the last holdings call: its arguments, feeds and result
    s_pc,        \* position in main of take-snapshot.py
    s_args,      \* what parse_arguments returned
    s_provider,  \* "up", or "down" when every Hive-Engine call of the run fails
    TOKENS,      \* main's TOKENS
    valid_token_symbols,  \* main's valid_token_symbols
    s_holdings,  \* main's `holdings`
    s_hive_usd,  \* main's hive_usd, a fraction <<numerator, denominator>>
    s_hbd_usd,   \* main's hbd_usd
    s_btc_usd,   \* main's btc_usd
    s_price_cache,  \* the fiat prices the price functions have memoised
    s_layer1,    \* main's layer1_holdings and layer1_values; <<>> for None
    token_data,  \* main's token_data
    s_pool_data, \* main's pool_data
    s_snapshot,  \* the "summary" of the documents save_automated_snapshots wrote
    s_events,    \* lookups, snapshot writes, sweeps and diagnostics, in order
    s_raised,    \* the exception that ended the run, "" if none
    a_pc,        \* position in call_hive_api
    a_retries,   \* its `retries` argument
    a_endpoint,  \* index of the loop variable `endpoint` in HIVE_API_ENDPOINTS
    a_attempt,   \* loop variable `attempt`
    a_log,       \* its requests and sleeps, in order
    a_ret,       \* what it returned
    t_pc,        \* position in fetch_all_tokens
    t_provider,  \* how the tokens table answers
    t_offset,    \* local `offset`
    t_tokens,    \* local `tokens`
    t_calls,     \* the fetches made so far
    u_call       \* a call of a function taken whole: arguments and result

fvars == <<f_pc, f_retries, f_delay, f_table, f_attempt, f_result>>
mvars == <<market_cache, m_pc, m_symbol, m_attempt, offset, all_trades, m_ret,
           yields, cache_at_call>>
pvars == <<registry, p_pc, p_caller, p_pair, p_retries, p_delay, p_attempt, p_step,
           pool_info, p_ret, p_log, p_answered, p_last, p_todo, p_holdings,
           pool_data, p_values>>
cvars == <<clock, cu_price_cache, cu_market_cache, cu_diesel_cache, l1_cache, l1_defined,
           price_file, market_file, diesel_file, c_op>>
hvars == <<h_call>>
svars == <<s_pc, s_args, s_provider, TOKENS, valid_token_symbols, s_holdings,
           s_hive_usd, s_hbd_usd, s_btc_usd, s_price_cache, s_layer1, token_data, s_pool_data,
           s_snapshot, s_events, s_raised>>
avars == <<a_pc, a_retries, a_endpoint, a_attempt, a_log, a_ret>>
tvars == <<t_pc, t_provider, t_offset, t_tokens, t_calls>>
xvars == <<avars, tvars, u_call>>
later == <<hvars, svars, xvars>>
others == <<pvars, cvars, later>>
vars == <<fvars, log, mvars, others>>

\* one entry of the log
Event(op, table, attempt, dur, jitter, out) ==
    [op |-> op, table |-> table, attempt |-> attempt, dur |-> dur,
     jitter |-> jitter, out |-> out, offset |-> 0, len |-> 0]

NoOutcome == [kind |-> "", val |-> <<>>, msg |-> {}]
NoResult == [kind |-> "pending", val |-> <<>>]
NoReturn == [kind |-> "pending", price |-> 0, volume |-> 0]
EmptyCache == [s \in {} |-> <<0, 0>>]

\* ---------------------------------------------- fetch_from_hive_engine
Pow2(n) == IF n <= 0 THEN 1 ELSE 2 ^ n

\* variants of the backoff: a constant delay, and an exponent off by one
BackoffBaseConstant(delay, attempt) == delay
BackoffBaseNextPower(delay, attempt) == delay * Pow2(attempt)

\* line 46: delay * (2 ** (attempt - 1)), the part of sleep_time without jitter
BackoffBase(delay, attempt) == delay * Pow2(attempt - 1)

\* variant: the rate-limit sleep without the doubling
RateLimitSleepSingle(delay) == delay

\* line 69: time.sleep(delay * 2)
RateLimitSleep(delay) == delay * 2

\* variant: the chain without its timeout/connection branch
ClassifyNoConnection(error_msg) ==
    IF Has(error_msg, "service temporarily unavailable") \/ Has(error_msg, "503")
      THEN "unavailable"
    ELSE IF Has(error_msg, "rate limit") \/ Has(error_msg, "429")
      THEN "ratelimit"
    ELSE "other"

\* lines 61-74: the if/elif chain over error_msg
Classify(error_msg) ==
    IF Has(error_msg, "service temporarily unavailable") \/ Has(error_msg, "503")
      THEN "unavailable"
    ELSE IF Has(error_msg, "timeout") \/ Has(error_msg, "connection")
      THEN "connection"
    ELSE IF Has(error_msg, "rate limit") \/ Has(error_msg, "429")
      THEN "ratelimit"
    ELSE "other"

\* variant: the break one attempt late
OtherErrorBreaksLate(attempt) == attempt >= 3

\* line 73: the attempt from which an unclassified error ends the loop
OtherErrorBreaks(attempt) == attempt >= 2

\* variant: the result returned without the None check
FindResultUnchecked(outcome) ==
    IF outcome.kind = "none" THEN [kind |-> "none", val |-> <<>>]
    ELSE [kind |-> "list", val |-> outcome.val]

\* lines 51-54: the value returned after api.find came back
FindResult(outcome) ==
    IF outcome.kind = "none" THEN [kind |-> "list", val |-> <<>>]
    ELSE [kind |-> "list", val |-> outcome.val]

\* variant: without the return on the last attempt (lines 76-77)
AfterErrorNoLastReturn(class, attempt, retries) ==
    IF class \in {"unavailable", "connection", "ratelimit"} THEN "continue"
    ELSE IF OtherErrorBreaks(attempt) THEN "break"
    ELSE "continue"

\* lines 56-79: what follows an exception of the given class on `attempt`:
\* "continue" (next iteration), "break"/"return" (empty list now)
AfterError(class, attempt, retries) ==
    IF class \in {"unavailable", "connection", "ratelimit"} THEN "continue"
    ELSE IF OtherErrorBreaks(attempt) THEN "break"
    ELSE IF attempt = retries - 1 THEN "return"
    ELSE "continue"

\* lines 44-48: the sleep before a retry
FetchBackoff(J) ==
    /\ f_pc = "for"
    /\ f_attempt < f_retries
    /\ f_attempt > 0
    /\ \E jitter \in J :
         log' = Append(log, Event("sleep_backoff", f_table, f_attempt,
                                  BackoffBase(f_delay, f_attempt), jitter, NoOutcome))
    /\ f_pc' = "find"
    /\ UNCHANGED <<f_retries, f_delay, f_table, f_attempt, f_result, mvars, others>>

\* lines 50-79: api.find and everything up to the next iteration or the return
FetchFind(Outcomes) ==
    /\ \/ f_pc = "find"
       \/ f_pc = "for" /\ f_attempt < f_retries /\ f_attempt = 0
    /\ \E outcome \in Outcomes :
         LET call == Event("find", f_table, f_attempt, 0, 0, outcome)
             class == Classify(outcome.msg)
             after == AfterError(class, f_attempt, f_retries)
             extra == Event("sleep_ratelimit", f_table, f_attempt,
                            RateLimitSleep(f_delay), 0, NoOutcome)
         IN IF outcome.kind # "exc"
              THEN /\ log' = Append(log, call)
                   /\ f_result' = FindResult(outcome)
                   /\ f_pc' = "done"
                   /\ UNCHANGED f_attempt
              ELSE /\ log' = IF class = "ratelimit"
                               THEN log \o <<call, extra>>
                               ELSE Append(log, call)
                   /\ IF after = "continue"
                        THEN /\ f_attempt' = f_attempt + 1
                             /\ f_pc' = "for"
                             /\ UNCHANGED f_result
                        ELSE /\ f_result' = [kind |-> "list", val |-> <<>>]
                             /\ f_pc' = "done"
                             /\ UNCHANGED f_attempt
    /\ UNCHANGED <<f_retries, f_delay, f_table, mvars, others>>

\* line 81: the loop ran out of attempts
FetchExhausted ==
    /\ f_pc = "for"
    /\ f_attempt >= f_retries
    /\ f_result' = [kind |-> "list", val |-> <<>>]
    /\ f_pc' = "done"
    /\ UNCHANGED <<f_retries, f_delay, f_table, f_attempt, log, mvars, others>>

\* get_market_info not running, its memo empty (line 17)
MarketIdle ==
    /\ market_cache = EmptyCache
    /\ m_pc = "idle"
    /\ m_symbol = ""
    /\ m_attempt = 0
    /\ offset = 0
    /\ all_trades = <<>>
    /\ m_ret = NoReturn
    /\ yields = <<>>
    /\ cache_at_call = EmptyCache

\* a caller invoking fetch_from_hive_engine(api, contract, table, query, ...)
\* nothing of the pool module has run
NoValues == [kind |-> "none", base_amount |-> 0, quote_amount |-> 0,
             total_value_hive |-> 0, share_percentage |-> 0]
PoolIdle ==
    /\ registry = <<>>
    /\ p_pc = "idle"
    /\ p_caller = ""
    /\ p_pair = <<>>
    /\ p_retries = 0
    /\ p_delay = 0
    /\ p_attempt = 0
    /\ p_step = 0
    /\ pool_info = <<>>
    /\ p_ret = <<>>
    /\ p_log = <<>>
    /\ p_answered = TRUE
    /\ p_last = <<>>
    /\ p_todo = {}
    /\ p_holdings = <<>>
    /\ pool_data = <<>>
    /\ p_values = NoValues

\* nothing of the cache module has run
NoEntries == [k \in {} |-> 0]
NoFile == [exists |-> FALSE, doc |-> {}]
NoOp == [op |-> "", key |-> "", entry |-> <<>>, remote |-> FALSE, ret |-> 0, at |-> 0,
         caches |-> <<>>, files |-> <<>>, saved |-> FALSE, clean |-> FALSE,
         failed |-> FALSE]
CacheIdle ==
    /\ clock = 0
    /\ cu_price_cache = NoEntries
    /\ cu_market_cache = NoEntries
    /\ cu_diesel_cache = NoEntries
    /\ l1_cache = NoEntries
    /\ l1_defined = FALSE
    /\ price_file = NoFile
    /\ market_file = NoFile
    /\ diesel_file = NoFile
    /\ c_op = NoOp

\* no holdings call has been made
NoCall ==
    [op |-> "", tokens |-> {}, liquid |-> <<>>, delegated |-> <<>>, feeds |-> <<>>,
     retries |-> 0, delay |-> 0, jitter |-> 0, kind |-> "", ret |-> <<>>,
     fetches |-> 0, sleeps |-> <<>>]
\* main has not been entered
NoArgs ==
    [username |-> <<>>, tokens |-> <<>>, snapshots_dir |-> <<>>, quiet |-> FALSE,
     no_layer1 |-> FALSE]
MainIdle ==
    /\ s_pc = "idle"
    /\ s_args = NoArgs
    /\ s_provider = "up"
    /\ TOKENS = <<>>
    /\ valid_token_symbols = {}
    /\ s_holdings = <<>>
    /\ s_hive_usd = <<0, 1>>
    /\ s_hbd_usd = <<0, 1>>
    /\ s_btc_usd = <<0, 1>>
    /\ s_price_cache = <<>>
    /\ s_layer1 = <<>>
    /\ token_data = <<>>
    /\ s_pool_data = <<>>
    /\ s_snapshot = <<>>
    /\ s_events = <<>>
    /\ s_raised = ""
\* call_hive_api not running
ApiIdle ==
    /\ a_pc = "idle"
    /\ a_retries = 0
    /\ a_endpoint = 0
    /\ a_attempt = 0
    /\ a_log = <<>>
    /\ a_ret = <<>>
\* fetch_all_tokens not running
TokensIdle ==
    /\ t_pc = "idle"
    /\ t_provider = [kind |-> "", table |-> <<>>]
    /\ t_offset = 0
    /\ t_tokens = {}
    /\ t_calls = 0
NoWholeCall == [op |-> ""]
ExtraIdle ==
    /\ ApiIdle
    /\ TokensIdle
    /\ u_call = NoWholeCall
LaterIdle ==
    /\ h_call = NoCall
    /\ MainIdle
    /\ ExtraIdle

InitFetch ==
    /\ f_pc = "for"
    /\ f_retries \in RetryBudgets
    /\ f_delay \in Delays
    /\ f_table = "balances"
    /\ f_attempt = 0
    /\ f_result = NoResult
    /\ log = <<>>
    /\ MarketIdle
    /\ PoolIdle
    /\ CacheIdle
    /\ LaterIdle

NextFetch ==
    \/ FetchBackoff(Jitters)
    \/ FetchFind(FindOutcomes)
    \/ FetchExhausted

SpecFetch == InitFetch /\ [][NextFetch]_vars

\* ------------------------------------------------------ get_market_info
\* variant: a memo entry without a price does not count
CacheHitUsable(cache, symbol) == symbol \in DOMAIN cache /\ cache[symbol][1] > 0

\* line 119: symbol in market_cache
CacheHit(cache, symbol) == symbol \in DOMAIN cache

\* variant: the memo not written
CachePutSkipped(cache, symbol, pair) == cache

\* market_cache[symbol] = pair
CachePut(cache, symbol, pair) ==
    [s \in DOMAIN cache \cup {symbol} |-> IF s = symbol THEN pair ELSE cache[s]]

\* variant: >= in place of >
UsableNonNegative(price) == price >= 0

\* lines 135, 191, 208, 226: a price is used only when it is > 0
Usable(price) == price > 0

\* lines 93-100 fetch_market_metrics: result[0] if result else None, None on
\* any Exception; the metrics dict is kept as a list of length 0 (None) or 1
FetchMarketMetrics(outcome) ==
    IF outcome.kind = "ok" /\ outcome.val # <<>> THEN <<outcome.val[1]>> ELSE <<>>

\* variant: the cutoff itself excluded from the window
RECURSIVE get_volume_since_strict(_, _)
get_volume_since_strict(trades, since_seconds_ago) ==
    IF trades = <<>> THEN 0
    ELSE LET t == Head(trades)
             cutoff == Now - since_seconds_ago
         IN (IF t.volume # 0 /\ t.timestamp > cutoff THEN t.volume ELSE 0)
              + get_volume_since_strict(Tail(trades), since_seconds_ago)

\* lines 83-87 get_volume_since
RECURSIVE get_volume_since(_, _)
get_volume_since(trades, since_seconds_ago) ==
    IF trades = <<>> THEN 0
    ELSE LET t == Head(trades)
             cutoff == Now - since_seconds_ago
         IN (IF t.volume # 0 /\ t.timestamp >= cutoff THEN t.volume ELSE 0)
              + get_volume_since(Tail(trades), since_seconds_ago)

\* lines 89-91 get_24h_volume
get_24h_volume(trades) == get_volume_since(trades, DaySeconds)

\* variant: the best ask ignored when a best bid is there
PriceFromOrdersBidFirst(buy_book, sell_book) ==
    IF buy_book # <<>> THEN buy_book[1].price
    ELSE IF sell_book # <<>> THEN sell_book[1].price
    ELSE 0

\* lines 175-189: price_from_orders out of the two depth-1 books
PriceFromOrders(buy_book, sell_book) ==
    LET from_buy == IF buy_book # <<>> THEN buy_book[1].price ELSE 0
    IN IF sell_book # <<>>
         THEN IF from_buy = 0 THEN sell_book[1].price
              ELSE (from_buy + sell_book[1].price) \div 2
         ELSE from_buy

\* a price computed by a source, after `at` entries of the log
Yield(source, price, at) == [source |-> source, price |-> price, at |-> at]

TradesEvent(attempt, off, len, out) ==
    [Event("trades", "", attempt, 0, 0, out) EXCEPT !.offset = off, !.len = len]

\* variant: the pair returned without the memo being written
ReturnNotCached(price, volume) ==
    /\ UNCHANGED market_cache
    /\ m_ret' = [kind |-> "pair", price |-> price, volume |-> volume]
    /\ m_pc' = "done"

\* market_cache[symbol] = (price, volume); return price, volume
ReturnCached(price, volume) ==
    /\ market_cache' = CachePut(market_cache, m_symbol, <<price, volume>>)
    /\ m_ret' = [kind |-> "pair", price |-> price, volume |-> volume]
    /\ m_pc' = "done"

\* entering fetch_from_hive_engine(api, "market", table, {"symbol": symbol}, limit=1)
StartFetch(table) ==
    /\ f_pc' = "for"
    /\ f_retries' = DefaultFetchRetries
    /\ f_delay' = DefaultFetchDelay
    /\ f_table' = table
    /\ f_attempt' = 0
    /\ f_result' = NoResult

\* line 143: the next iteration of `for attempt in range(retries)`, or past it
TradesLoop(attempt) == IF attempt < MarketRetries THEN "trades" ELSE "final"

\* variant: the special case keyed on the unwrapped coin
IsReferenceSymbolUnwrapped(symbol) == symbol = "HIVE"

\* line 123: symbol == "SWAP.HIVE"
IsReferenceSymbol(symbol) == symbol = "SWAP.HIVE"

\* lines 117-127: the call, the memo lookup and the SWAP.HIVE special case
GetMarketInfo(symbol) ==
    /\ m_pc \in {"idle", "done"}
    /\ m_symbol' = symbol
    /\ cache_at_call' = market_cache
    /\ log' = <<>>
    /\ yields' = <<>>
    /\ m_attempt' = 0
    /\ offset' = 0
    /\ all_trades' = <<>>
    /\ IF CacheHit(market_cache, symbol)
         THEN /\ m_ret' = [kind |-> "pair", price |-> market_cache[symbol][1],
                           volume |-> market_cache[symbol][2]]
              /\ m_pc' = "done"
              /\ UNCHANGED market_cache
         ELSE IF IsReferenceSymbol(symbol)
           THEN /\ market_cache' = CachePut(market_cache, symbol, <<Unit, 0>>)
                /\ m_ret' = [kind |-> "pair", price |-> Unit, volume |-> 0]
                /\ m_pc' = "done"
           ELSE /\ m_ret' = NoReturn
                /\ m_pc' = "metrics"
                /\ UNCHANGED market_cache
    /\ UNCHANGED <<fvars, others>>

\* hive_engine_utils.py lines 389-393: clear_caches(), called between two
\* calls of get_market_info: price_cache.clear(), market_cache.clear().
\* The two memos are all the state the module keeps between calls, so the
\* module is where it was after import: the record of the call before (its
\* argument, its locals, its log, what it returned) is dropped, as it is at
\* the entry of every operation.  cache_at_call keeps the memo as this
\* operation found it, until the next call starts.
clear_caches ==
    /\ m_pc \in {"idle", "done"}
    /\ market_cache' = EmptyCache
    /\ s_price_cache' = <<>>
    /\ m_pc' = "idle"
    /\ m_symbol' = ""
    /\ m_ret' = NoReturn
    /\ cache_at_call' = market_cache
    /\ log' = <<>>
    /\ yields' = <<>>
    /\ m_attempt' = 0
    /\ offset' = 0
    /\ all_trades' = <<>>
    /\ f_pc' = "idle"
    /\ f_retries' = DefaultFetchRetries
    /\ f_delay' = DefaultFetchDelay
    /\ f_table' = ""
    /\ f_attempt' = 0
    /\ f_result' = NoResult
    /\ c_op' = NoOp
    /\ UNCHANGED <<s_pc, s_args, s_provider, TOKENS, valid_token_symbols, s_holdings,
                   s_hive_usd, s_hbd_usd, s_btc_usd, s_layer1, token_data, s_pool_data,
                   s_snapshot, s_events, s_raised>>
    /\ UNCHANGED <<clock, cu_price_cache, cu_market_cache, cu_diesel_cache, l1_cache, l1_defined,
                   price_file, market_file, diesel_file>>
    /\ UNCHANGED <<pvars, hvars, xvars>>

\* lines 128-140: the metrics lookup
MetricsLookup ==
    /\ m_pc = "metrics"
    /\ \E outcome \in MetricsOutcomes :
         LET metrics == FetchMarketMetrics(outcome)
             last_price == metrics[1].lastPrice
             volume == metrics[1].volume
         IN /\ log' = Append(log, Event("find", "metrics", 0, 0, 0, outcome))
            /\ IF metrics # <<>>
                 THEN /\ yields' = Append(yields, Yield("metrics", last_price, Len(log) + 1))
                      /\ IF Usable(last_price)
                           THEN ReturnCached(last_price, volume)
                           ELSE /\ m_pc' = TradesLoop(0)
                                /\ UNCHANGED <<market_cache, m_ret>>
                 ELSE /\ m_pc' = TradesLoop(0)
                      /\ UNCHANGED <<market_cache, m_ret, yields>>
    /\ UNCHANGED <<fvars, m_symbol, m_attempt, offset, all_trades, cache_at_call, others>>

\* lines 143-165 and 218-219: one market.get_trades_history call of the
\* pagination, with what follows it: the next page, the result of the attempt,
\* or the handling of its Exception
TradesPage ==
    /\ m_pc = "trades"
    /\ \E outcome \in TradesOutcomes(BatchLimit, (offset \div BatchLimit) + 1 < MaxPages) :
         LET trades == outcome.val
             call == TradesEvent(m_attempt, offset, Len(trades), [outcome EXCEPT !.val = <<>>])
             acc == all_trades \o trades
             price_hive == acc[1].price
             vol24 == get_24h_volume(acc)
             pause == Event("sleep_retry", "", m_attempt, MarketDelay, 0, NoOutcome)
         IN IF outcome.kind = "ok"
              THEN /\ log' = Append(log, call)
                   /\ IF trades # <<>> /\ Len(trades) >= BatchLimit
                        THEN /\ all_trades' = acc
                             /\ offset' = offset + BatchLimit
                             /\ UNCHANGED <<m_pc, m_attempt, m_ret, market_cache, yields>>
                        ELSE IF acc # <<>>
                          THEN /\ all_trades' = acc
                               /\ yields' = Append(yields, Yield("trades", price_hive, Len(log) + 1))
                               /\ ReturnCached(price_hive, vol24)
                               /\ UNCHANGED <<m_attempt, offset>>
                          ELSE /\ m_attempt' = m_attempt + 1
                               /\ m_pc' = TradesLoop(m_attempt + 1)
                               /\ offset' = 0
                               /\ all_trades' = <<>>
                               /\ UNCHANGED <<m_ret, market_cache, yields>>
              ELSE IF Has(outcome.msg, "does not exists")
                THEN /\ log' = Append(log, call)
                     /\ m_pc' = "orderbook"
                     /\ offset' = 0
                     /\ all_trades' = <<>>
                     /\ UNCHANGED <<m_attempt, m_ret, market_cache, yields>>
                ELSE /\ log' = IF m_attempt < MarketRetries - 1
                                 THEN log \o <<call, pause>>
                                 ELSE Append(log, call)
                     /\ m_attempt' = m_attempt + 1
                     /\ m_pc' = TradesLoop(m_attempt + 1)
                     /\ offset' = 0
                     /\ all_trades' = <<>>
                     /\ UNCHANGED <<m_ret, market_cache, yields>>
    /\ UNCHANGED <<fvars, m_symbol, cache_at_call, others>>

\* lines 171-202: the order-book probe; when it gives no price, or raises,
\* the direct lookup of the buyBook table is entered
OrderBookProbe ==
    /\ m_pc = "orderbook"
    /\ \E buy \in OrderBookOutcomes, sell \in OrderBookOutcomes :
         LET buy_call == Event("get_buy_book", "", m_attempt, 0, 0, buy)
             sell_call == Event("get_sell_book", "", m_attempt, 0, 0, sell)
             price_from_orders == PriceFromOrders(buy.val, sell.val)
         IN IF buy.kind = "exc"
              THEN /\ sell = buy
                   /\ log' = Append(log, buy_call)
                   /\ m_pc' = "direct_buy"
                   /\ StartFetch("buyBook")
                   /\ UNCHANGED <<m_ret, market_cache, yields>>
              ELSE IF sell.kind = "exc"
                THEN /\ log' = log \o <<buy_call, sell_call>>
                     /\ m_pc' = "direct_buy"
                     /\ StartFetch("buyBook")
                     /\ UNCHANGED <<m_ret, market_cache, yields>>
                ELSE /\ log' = log \o <<buy_call, sell_call>>
                     /\ yields' = Append(yields, Yield("orderbook", price_from_orders, Len(log) + 2))
                     /\ IF Usable(price_from_orders)
                          THEN /\ ReturnCached(price_from_orders, 0)
                               /\ UNCHANGED fvars
                          ELSE /\ m_pc' = "direct_buy"
                               /\ StartFetch("buyBook")
                               /\ UNCHANGED <<m_ret, market_cache>>
    /\ UNCHANGED <<m_symbol, m_attempt, offset, all_trades, cache_at_call, others>>

\* variant: the loop not left after the alternative sources
AfterAlternativesNoBreak(attempt) == TradesLoop(attempt + 1)

\* line 216: break, which leads to the final metrics lookup of line 222
AfterAlternatives(attempt) == "final"

\* lines 206-216: market_data in hand; its price is returned or the loop is left
DirectEvaluate(market_data) ==
    LET price == market_data[1].price
    IN /\ f_pc' = "idle"
       /\ UNCHANGED <<f_retries, f_delay, f_table, f_attempt, f_result>>
       /\ IF market_data # <<>>
            THEN /\ yields' = Append(yields, Yield("direct", price, Len(log)))
                 /\ IF Usable(price)
                      THEN ReturnCached(price, 0)
                      ELSE /\ m_pc' = AfterAlternatives(m_attempt)
                           /\ UNCHANGED <<m_ret, market_cache>>
            ELSE /\ m_pc' = AfterAlternatives(m_attempt)
                 /\ UNCHANGED <<m_ret, market_cache, yields>>

\* lines 202-204: the buyBook fetch returned; the sellBook fetch is made only
\* when it returned nothing
DirectBuyReturned ==
    /\ m_pc = "direct_buy"
    /\ f_pc = "done"
    /\ IF f_result.val = <<>>
         THEN /\ m_pc' = "direct_sell"
              /\ StartFetch("sellBook")
              /\ UNCHANGED <<m_ret, market_cache, yields>>
         ELSE DirectEvaluate(f_result.val)
    /\ UNCHANGED <<log, m_symbol, m_attempt, offset, all_trades, cache_at_call, others>>

\* line 204: the sellBook fetch returned
DirectSellReturned ==
    /\ m_pc = "direct_sell"
    /\ f_pc = "done"
    /\ DirectEvaluate(f_result.val)
    /\ UNCHANGED <<log, m_symbol, m_attempt, offset, all_trades, cache_at_call, others>>

\* lines 221-235: the metrics lookup once more, then the give-up result
FinalMetrics ==
    /\ m_pc = "final"
    /\ \E outcome \in MetricsOutcomes :
         LET metrics == FetchMarketMetrics(outcome)
             last_price == metrics[1].lastPrice
         IN /\ log' = Append(log, Event("find", "metrics", 0, 0, 0, outcome))
            /\ IF metrics # <<>>
                 THEN /\ yields' = Append(yields, Yield("final", last_price, Len(log) + 1))
                      /\ IF Usable(last_price)
                           THEN ReturnCached(last_price, 0)
                           ELSE ReturnCached(0, 0)
                 ELSE /\ ReturnCached(0, 0)
                      /\ UNCHANGED yields
    /\ UNCHANGED <<fvars, m_symbol, m_attempt, offset, all_trades, cache_at_call, others>>

\* the process after import: no call running, the memo empty
InitMarket ==
    /\ f_pc = "idle"
    /\ f_retries = DefaultFetchRetries
    /\ f_delay = DefaultFetchDelay
    /\ f_table = ""
    /\ f_attempt = 0
    /\ f_result = NoResult
    /\ log = <<>>
    /\ MarketIdle
    /\ PoolIdle
    /\ CacheIdle
    /\ LaterIdle

NextMarket ==
    \/ \E symbol \in Symbols : GetMarketInfo(symbol)
    \/ clear_caches
    \/ MetricsLookup
    \/ TradesPage
    \/ OrderBookProbe
    \/ FetchBackoff(MarketJitters)
    \/ FetchFind(MarketFindOutcomes)
    \/ FetchExhausted
    \/ DirectBuyReturned
    \/ DirectSellReturned
    \/ FinalMetrics

SpecMarket == InitMarket /\ [][NextMarket]_vars

\* ------------------------------------------------ reading the log of a fetch
FindIdx == { i \in 1..Len(log) : log[i].op = "find" }
BackoffIdx == { i \in 1..Len(log) : log[i].op = "sleep_backoff" }
NumCalls == Cardinality(FindIdx)
LastCall == log[Len(log)]

\* the error classes as the specification words them
IsTransientMsg(m) ==
    \/ Has(m, "service temporarily unavailable")
    \/ Has(m, "503")
    \/ Has(m, "timeout")
    \/ Has(m, "connection")
IsRateLimitMsg(m) ==
    /\ Has(m, "rate limit") \/ Has(m, "429")
    /\ ~IsTransientMsg(m)
IsOtherMsg(m) == ~IsTransientMsg(m) /\ ~Has(m, "rate limit") /\ ~Has(m, "429")

Raised(i) == log[i].out.kind = "exc"
EveryCallRaised(P(_)) == \A i \in FindIdx : Raised(i) /\ P(log[i].out.msg)

\* shortest possible length of a backoff sleep, in half seconds
MinDuration(e) == 2 * e.dur + JitterLo

Min2(a, b) == IF a < b THEN a ELSE b

\* C1: fetch_from_hive_engine never raises; it ends with the payload of a
\* successful provider call or with the empty list, with the empty list
\* whenever no attempt succeeded, after at most `retries` provider calls.
C1_FetchNeverRaises ==
    /\ NumCalls <= f_retries
    /\ f_pc = "done" =>
         /\ f_result.kind = "list"
         /\ \/ f_result.val = <<>>
            \/ \E i \in FindIdx : log[i].out.kind = "ok" /\ f_result.val = log[i].out.val
         /\ (\A i \in FindIdx : log[i].out.kind # "ok") => f_result.val = <<>>

C1_Witness ==
    /\ f_pc = "done"
    /\ f_retries >= 3
    /\ LastCall.op = "find"
    /\ LastCall.out.kind = "none"
    /\ \E i \in FindIdx : Raised(i)

\* the case of C2: k transient failures, k < retries, then a success
FailedThenSucceeded ==
    /\ f_pc = "done"
    /\ Len(log) > 0
    /\ LastCall.op = "find"
    /\ LastCall.out.kind = "ok"
    /\ \A i \in FindIdx : i # Len(log) => Raised(i) /\ IsTransientMsg(log[i].out.msg)

PayloadOfFirstSuccess ==
    /\ f_result = [kind |-> "list", val |-> LastCall.out.val]
    /\ \A i \in FindIdx : log[i].out.kind = "ok" => i = Len(log)
    /\ Cardinality(BackoffIdx) = NumCalls - 1
    /\ Cardinality(BackoffIdx) = LastCall.attempt

\* C2 as stated: after k transient failures and a success the result is the
\* payload of the first successful call, nothing is called after it, and the
\* k backoff sleeps have strictly increasing minimum durations.
C2_Original ==
    FailedThenSucceeded =>
        /\ PayloadOfFirstSuccess
        /\ \A i, j \in BackoffIdx : i < j => MinDuration(log[i]) < MinDuration(log[j])

\* C2 amended: as C2, the minimum durations being strictly increasing when
\* delay > 0 and all equal to the minimum jitter when delay = 0.
C2_RetryThenSuccess ==
    FailedThenSucceeded =>
        /\ PayloadOfFirstSuccess
        /\ f_delay > 0 =>
             \A i, j \in BackoffIdx : i < j => MinDuration(log[i]) < MinDuration(log[j])
        /\ f_delay = 0 =>
             \A i \in BackoffIdx : MinDuration(log[i]) = JitterLo

C2_Witness ==
    /\ FailedThenSucceeded
    /\ f_delay > 0
    /\ NumCalls = 3
    /\ LastCall.out.val # <<>>

\* C3: attempt 0 is called with no sleep before it; every later attempt k is
\* preceded by exactly one backoff sleep of delay * 2^(k-1) seconds plus a
\* jitter in [0.5, 1.5], slept right before the provider call of attempt k.
C3_BackoffBeforeRetry ==
    \A i \in FindIdx :
        LET k == log[i].attempt
        IN /\ k <= f_retries - 1
           /\ k = 0 => i = 1
           /\ k >= 1 =>
                /\ i > 1
                /\ log[i - 1].op = "sleep_backoff"
                /\ log[i - 1].attempt = k
                /\ log[i - 1].dur = f_delay * (2 ^ (k - 1))
                /\ log[i - 1].jitter \in JitterLo..JitterHi
                /\ Cardinality({ j \in BackoffIdx : log[j].attempt = k }) = 1

C3_Witness ==
    /\ f_pc = "done"
    /\ f_delay > 0
    /\ NumCalls >= 4
    /\ \E i \in FindIdx : log[i].attempt = 3 /\ log[i - 1].dur = f_delay * 4

\* C4: when every attempt raises a transient error the provider is called
\* exactly `retries` times and the empty list is returned.
C4_TransientExhaustsBudget ==
    (f_pc = "done" /\ EveryCallRaised(IsTransientMsg)) =>
        /\ NumCalls = f_retries
        /\ f_result = [kind |-> "list", val |-> <<>>]

C4_Witness ==
    /\ f_pc = "done"
    /\ EveryCallRaised(IsTransientMsg)
    /\ f_retries = MaxRetries
    /\ NumCalls = MaxRetries
    /\ \E i \in FindIdx : Has(log[i].out.msg, "timeout")

\* C5: when every attempt raises an error that is neither transient nor a
\* rate limit the provider is called exactly min(retries, 3) times and the
\* empty list is returned.
C5_OtherErrorsStopAtThree ==
    (f_pc = "done" /\ EveryCallRaised(IsOtherMsg)) =>
        /\ NumCalls = Min2(f_retries, 3)
        /\ f_result = [kind |-> "list", val |-> <<>>]

C5_Witness ==
    /\ f_pc = "done"
    /\ EveryCallRaised(IsOtherMsg)
    /\ f_retries > 3
    /\ NumCalls = 3

\* C6: every rate-limit error is followed at once by an extra sleep of
\* 2 * delay; when attempts remain, the normal backoff sleep and the next
\* provider call follow it.
C6_RateLimitExtraSleep ==
    \A i \in FindIdx :
        (Raised(i) /\ IsRateLimitMsg(log[i].out.msg)) =>
            /\ Len(log) > i
            /\ log[i + 1].op = "sleep_ratelimit"
            /\ log[i + 1].dur = 2 * f_delay
            /\ (f_pc = "done" /\ log[i].attempt + 1 < f_retries) =>
                 /\ Len(log) >= i + 3
                 /\ log[i + 2].op = "sleep_backoff"
                 /\ log[i + 2].attempt = log[i].attempt + 1
                 /\ log[i + 3].op = "find"
                 /\ log[i + 3].attempt = log[i].attempt + 1

C6_Witness ==
    /\ f_pc = "done"
    /\ f_delay > 0
    /\ \E i \in FindIdx :
         /\ Raised(i) /\ IsRateLimitMsg(log[i].out.msg)
         /\ log[i].attempt = 2
         /\ Len(log) >= i + 3
         /\ log[i + 3].op = "find"
    /\ \E i \in FindIdx :
         /\ Raised(i) /\ IsRateLimitMsg(log[i].out.msg)
         /\ log[i].attempt = f_retries - 1

\* C36: an error that is neither transient nor a rate limit, raised on
\* 0-based attempt k, ends the fetch at once with the empty list exactly when
\* k >= 2 or k is the last attempt; otherwise attempt k + 1 follows after its
\* backoff sleep.  More than three provider calls are made only when the
\* third call (attempt 2) raised a retried class of error.
C36_OtherErrorMixed ==
    /\ \A i \in FindIdx :
         (Raised(i) /\ IsOtherMsg(log[i].out.msg)) =>
            LET k == log[i].attempt
            IN /\ (k >= 2 \/ k = f_retries - 1) <=> (f_pc = "done" /\ i = Len(log))
               /\ (f_pc = "done" /\ i = Len(log)) =>
                    f_result = [kind |-> "list", val |-> <<>>]
               /\ (k < 2 /\ k < f_retries - 1 /\ f_pc = "done") =>
                    /\ Len(log) >= i + 2
                    /\ log[i + 1].op = "sleep_backoff"
                    /\ log[i + 2].op = "find"
                    /\ log[i + 2].attempt = k + 1
    /\ NumCalls > 3 =>
         \E i \in FindIdx :
            /\ log[i].attempt = 2
            /\ Raised(i)
            /\ ~IsOtherMsg(log[i].out.msg)

C36_Witness ==
    /\ f_pc = "done"
    /\ NumCalls = 4
    /\ \E i, j \in FindIdx :
         /\ log[i].attempt = 1 /\ Raised(i) /\ IsOtherMsg(log[i].out.msg)
         /\ log[j].attempt = 3 /\ Raised(j) /\ IsOtherMsg(log[j].out.msg)
         /\ j = Len(log)

\* ------------------------------------------ reading the log of a price lookup
RemoteOps == {"find", "trades", "get_buy_book", "get_sell_book"}
RemoteIdx == { i \in 1..Len(log) : log[i].op \in RemoteOps }
IsMetricsFind(e) == e.op = "find" /\ e.table = "metrics"
IsDirectFind(e) == e.op = "find" /\ e.table \in {"buyBook", "sellBook"}
IsBookProbe(e) == e.op \in {"get_buy_book", "get_sell_book"}

\* place of the remote call log[i] in the chain: 1 metrics, 2 trade history,
\* 3 order book, 4 direct table lookup, 5 the metrics lookup made again
Rank(i) ==
    IF IsMetricsFind(log[i]) THEN (IF i = 1 THEN 1 ELSE 5)
    ELSE IF log[i].op = "trades" THEN 2
    ELSE IF IsBookProbe(log[i]) THEN 3
    ELSE 4

\* from log[i] on, no remote call has a lower place than the one before it,
\* nor than `floor`
RECURSIVE RanksAscend(_, _)
RanksAscend(i, floor) ==
    IF i > Len(log) THEN TRUE
    ELSE IF log[i].op \in RemoteOps
      THEN Rank(i) >= floor /\ RanksAscend(i + 1, Rank(i))
      ELSE RanksAscend(i + 1, floor)

Tried(r) == \E i \in RemoteIdx : Rank(i) = r
PositiveYields == { k \in 1..Len(yields) : yields[k].price > 0 }
Uncached == m_symbol \in Symbols /\ ~(m_symbol \in DOMAIN cache_at_call)
Resolving == Uncached /\ m_symbol # "SWAP.HIVE"
NotExistsRaised ==
    \E i \in RemoteIdx :
        log[i].op = "trades" /\ Raised(i) /\ Has(log[i].out.msg, "does not exists")

\* C7: the sources are queried in the order metrics, trade history, order
\* book, direct table lookup, metrics again; nothing is queried once a source
\* has yielded a price > 0, and that price is the one returned.
C7_FallbackOrder ==
    /\ RanksAscend(1, 1)
    /\ log # <<>> => IsMetricsFind(log[1])
    /\ Cardinality({ i \in 2..Len(log) : IsMetricsFind(log[i]) }) <= 1
    /\ \A k \in PositiveYields :
         /\ k = Len(yields)
         /\ \A i \in (yields[k].at + 1)..Len(log) : log[i].op \notin RemoteOps
         /\ m_pc = "done"
         /\ m_ret.price = yields[k].price
    /\ (m_pc = "done" /\ Resolving /\ m_ret.price > 0) => PositiveYields # {}

C7_Witness ==
    /\ m_pc = "done"
    /\ \A r \in 1..5 : Tried(r)
    /\ \E i \in RemoteIdx : log[i].op = "find" /\ log[i].table = "sellBook"
    /\ Len(yields) >= 3
    /\ yields[Len(yields)].source = "final"
    /\ yields[Len(yields)].price > 0

\* C8 as stated: (0.0, 0.0) is returned only when each of the five steps
\* has been tried in that call.
C8_Original ==
    (m_pc = "done" /\ m_ret.price = 0 /\ m_ret.volume = 0) => \A r \in 1..5 : Tried(r)

\* C8 amended: a lookup of a symbol not in the memo returns price 0 either
\* as the price of the most recent trade, or as the give-up pair (0, 0) after
\* the metrics lookup, the trade history and the metrics lookup made again
\* gave no price > 0; the order book and the direct table lookup have been
\* tried exactly when a trade-history call raised "does not exists".
C8_GiveUp ==
    (m_pc = "done" /\ m_ret.price = 0 /\ Uncached) =>
        /\ Tried(1)
        /\ Tried(2)
        /\ \/ /\ yields # <<>>
              /\ yields[Len(yields)].source = "trades"
              /\ all_trades # <<>>
              /\ all_trades[1].price = 0
           \/ /\ Tried(5)
              /\ PositiveYields = {}
              /\ m_ret.volume = 0
        /\ Tried(3) <=> NotExistsRaised
        /\ Tried(4) <=> NotExistsRaised

C8_Witness ==
    /\ m_pc = "done"
    /\ Uncached
    /\ m_ret.price = 0
    /\ m_ret.volume = 0
    /\ Tried(5)
    /\ ~Tried(3)
    /\ Cardinality({ i \in RemoteIdx : Rank(i) = 2 }) = MarketRetries

\* C9: a call for a symbol already in the memo returns the stored pair and
\* makes no remote call and no sleep.
C9_MemoHit ==
    (m_symbol \in DOMAIN cache_at_call) =>
        /\ log = <<>>
        /\ m_pc = "done"
        /\ m_ret = [kind |-> "pair", price |-> cache_at_call[m_symbol][1],
                    volume |-> cache_at_call[m_symbol][2]]

C9_Witness ==
    /\ m_pc = "done"
    /\ m_symbol = "LEO"
    /\ "LEO" \in DOMAIN cache_at_call
    /\ cache_at_call["LEO"] = <<0, 0>>

\* C10: whenever a price > 0 is returned for a symbol, the memo holds exactly
\* the returned pair under that symbol.
C10_ReturnedPairIsCached ==
    (m_pc = "done" /\ m_ret.price > 0) =>
        /\ m_symbol \in DOMAIN market_cache
        /\ market_cache[m_symbol] = <<m_ret.price, m_ret.volume>>

C10_Witness ==
    /\ m_pc = "done"
    /\ Uncached
    /\ yields # <<>>
    /\ yields[Len(yields)].source = "direct"
    /\ m_ret.price > 0
    /\ market_cache[m_symbol] = <<m_ret.price, 0>>

\* C11: a call for SWAP.HIVE makes no remote call and no sleep and returns
\* (1.0, 0.0), whatever the memo holds and whatever the provider would answer.
C11_ReferenceSymbol ==
    (m_symbol = "SWAP.HIVE") =>
        /\ log = <<>>
        /\ yields = <<>>
        /\ m_pc = "done"
        /\ m_ret = [kind |-> "pair", price |-> Unit, volume |-> 0]

C11_Witness ==
    /\ m_pc = "done"
    /\ m_symbol = "SWAP.HIVE"
    /\ "SWAP.HIVE" \in DOMAIN cache_at_call
    /\ "LEO" \in DOMAIN cache_at_call
    /\ cache_at_call["LEO"][1] > 0

\* the trade-history calls that raised "does not exists"
NotExistsIdx ==
    { i \in RemoteIdx :
        log[i].op = "trades" /\ Raised(i) /\ Has(log[i].out.msg, "does not exists") }
Answered(i) == i <= Len(log) /\ log[i].out.kind = "ok"

\* C12 as stated: after a "does not exists" error of the trade history the
\* order book is probed; with a best bid and a best ask the price returned
\* is their average, with only one of them it is that one, and the volume
\* is 0.
C12_Original ==
    \A i \in NotExistsIdx :
        /\ m_pc # "orderbook" => (Len(log) > i /\ log[i + 1].op = "get_buy_book")
        /\ (Answered(i + 1) /\ Answered(i + 2) /\ log[i + 2].op = "get_sell_book") =>
             LET bid == log[i + 1].out.val
                 ask == log[i + 2].out.val
             IN /\ (bid # <<>> /\ ask # <<>>) =>
                      /\ m_pc = "done"
                      /\ 2 * m_ret.price = bid[1].price + ask[1].price
                      /\ m_ret.volume = 0
                /\ (bid # <<>> /\ ask = <<>>) =>
                      /\ m_pc = "done"
                      /\ m_ret.price = bid[1].price
                      /\ m_ret.volume = 0
                /\ (bid = <<>> /\ ask # <<>>) =>
                      /\ m_pc = "done"
                      /\ m_ret.price = ask[1].price
                      /\ m_ret.volume = 0

\* the book has a best order, and one of a price above 0
Present(book) == book # <<>>
Priced(book) == book # <<>> /\ book[1].price > 0
\* the lookup did not end at the two probe calls i + 1 and i + 2: the direct
\* lookup of the buyBook table has been entered
WentOn(i) ==
    /\ m_pc \notin {"orderbook", "idle"}
    /\ m_pc = "done" => Len(log) > i + 2

\* C12: after a "does not exists" error of the trade history the order book
\* is probed.  With a best bid of a price above 0 and a best ask the pair
\* returned is their average with volume 0; with such a bid and no ask it is
\* the bid; with a best ask of a price above 0 and no bid, or a bid of price
\* 0, it is the ask alone; and when neither gives a price above 0 the probe
\* returns nothing and the lookup goes on to the direct lookup.
C12_OrderBookProbe ==
    \A i \in NotExistsIdx :
        /\ m_pc # "orderbook" => (Len(log) > i /\ log[i + 1].op = "get_buy_book")
        /\ (Answered(i + 1) /\ Answered(i + 2) /\ log[i + 2].op = "get_sell_book") =>
             LET bid == log[i + 1].out.val
                 ask == log[i + 2].out.val
                 ended == m_pc = "done" /\ Len(log) = i + 2 /\ m_ret.volume = 0
             IN /\ (Priced(bid) /\ Present(ask)) =>
                      /\ ended
                      /\ 2 * m_ret.price = bid[1].price + ask[1].price
                /\ (Priced(bid) /\ ~Present(ask)) =>
                      /\ ended
                      /\ m_ret.price = bid[1].price
                /\ (~Priced(bid) /\ Priced(ask)) =>
                      /\ ended
                      /\ m_ret.price = ask[1].price
                /\ (~Priced(bid) /\ ~Priced(ask)) => WentOn(i)

\* bid 3.0 and ask 5.0 give 4.0
C12_Witness ==
    /\ m_pc = "done"
    /\ \E i \in NotExistsIdx :
         /\ Answered(i + 1) /\ Answered(i + 2)
         /\ log[i + 1].out.val = <<[price |-> 3 * Unit]>>
         /\ log[i + 2].out.val = <<[price |-> 5 * Unit]>>
    /\ m_ret = [kind |-> "pair", price |-> 4 * Unit, volume |-> 0]

\* the trade-history calls of the attempt that ended the lookup
LastAttemptPages == { i \in RemoteIdx : log[i].op = "trades" /\ log[i].attempt = m_attempt }
ResolvedFromTrades ==
    /\ m_pc = "done"
    /\ yields # <<>>
    /\ yields[Len(yields)].source = "trades"

RECURSIVE SumOfVolumes(_, _)
SumOfVolumes(trades, idx) ==
    IF idx = {} THEN 0
    ELSE LET i == CHOOSE j \in idx : TRUE
         IN trades[i].volume + SumOfVolumes(trades, idx \ {i})

RECURSIVE SumOfLengths(_)
SumOfLengths(idx) ==
    IF idx = {} THEN 0
    ELSE LET i == CHOOSE j \in idx : TRUE
         IN log[i].len + SumOfLengths(idx \ {i})

\* C13: a lookup resolved from the trade history has read pages at offsets
\* 0, L, 2L, ... up to the first page that is empty or shorter than L; the
\* price returned is that of the first accumulated trade and the volume is
\* the sum of the volumes of the accumulated trades not older than 86400 s.
C13_TradeHistory ==
    ResolvedFromTrades =>
        LET pages == LastAttemptPages
            last == Len(log)
        IN /\ last \in pages
           /\ \A i \in pages : \A j \in i..last : j \in pages
           /\ \A i \in pages :
                /\ log[i].offset = BatchLimit * Cardinality({ j \in pages : j < i })
                /\ i # last => log[i].len = BatchLimit
                /\ i = last => log[i].len < BatchLimit
           /\ Len(all_trades) = SumOfLengths(pages)
           /\ m_ret.price = all_trades[1].price
           /\ m_ret.volume =
                SumOfVolumes(all_trades,
                    { k \in 1..Len(all_trades) : all_trades[k].timestamp >= Now - 86400 })

C13_Witness ==
    /\ ResolvedFromTrades
    /\ Cardinality(LastAttemptPages) = 2
    /\ Len(all_trades) = BatchLimit + 1
    /\ \E k \in 1..Len(all_trades) : all_trades[k].timestamp = Now - 86400
    /\ \E k \in 1..Len(all_trades) : all_trades[k].timestamp < Now - 86400
    /\ m_ret.volume > 0

ReturnedPair == <<m_ret.price, m_ret.volume>>

\* C39: every pair a call returns for a symbol, the give-up pair (0.0, 0.0)
\* included, is the memo's entry for that symbol; an entry the memo held
\* when a call started is never changed or dropped; and a call for a symbol
\* in the memo returns the entry at once with no remote call and no sleep,
\* whatever the provider would answer now.  Between two calls only
\* clear_caches touches the memo, so what holds from the start of each call
\* holds from one call to every later one as long as clear_caches is not
\* called in between.
C39_Idempotent ==
    /\ (m_pc = "done" /\ m_ret.kind = "pair") =>
         /\ m_symbol \in DOMAIN market_cache
         /\ market_cache[m_symbol] = ReturnedPair
    /\ m_symbol \in Symbols =>
         \A s \in DOMAIN cache_at_call :
            /\ s \in DOMAIN market_cache
            /\ market_cache[s] = cache_at_call[s]
    /\ m_symbol \in DOMAIN cache_at_call =>
         /\ m_pc = "done"
         /\ log = <<>>
         /\ ReturnedPair = cache_at_call[m_symbol]
         /\ market_cache = cache_at_call

\* the step is the entry of a call for the symbol
CallFor(s) == m_pc \in {"idle", "done"} /\ m_pc' # "idle" /\ m_symbol' = s
\* the step ends the call at once with the pair, the memo holding it
ReturnsAtOnce(s, pair) ==
    /\ m_pc' = "done"
    /\ log' = <<>>
    /\ m_ret' = [kind |-> "pair", price |-> pair[1], volume |-> pair[2]]
    /\ s \in DOMAIN market_cache'
    /\ market_cache'[s] = pair
\* the memo clear_caches has just emptied
ClearedMemo == IF m_pc = "idle" THEN cache_at_call ELSE EmptyCache

\* C39 as stated: within the process, once a call for a symbol has returned
\* a pair, the memo holds the pair under the symbol and every later call for
\* that symbol returns the same pair at once, with no remote call.  The
\* pairs returned before are the entries of the memo (an entry is written
\* only by the call that returns it), those of a memo that clear_caches
\* emptied included.
C39_Original ==
    [][\A s \in Symbols :
          /\ (CallFor(s) /\ s \in DOMAIN market_cache) =>
                ReturnsAtOnce(s, market_cache[s])
          /\ (CallFor(s) /\ s \in DOMAIN ClearedMemo) =>
                ReturnsAtOnce(s, ClearedMemo[s])]_vars

\* a second call for LEO after the first one gave up, with a call for
\* SWAP.HIVE in between
C39_Witness ==
    /\ m_pc = "done"
    /\ m_symbol = "LEO"
    /\ log = <<>>
    /\ DOMAIN cache_at_call = {"LEO", "SWAP.HIVE"}
    /\ cache_at_call["LEO"] = <<0, 0>>
    /\ ReturnedPair = <<0, 0>>

\* ------------------------------------------------------------------
\* diesel_pools.py: get_diesel_pool_info and its caller
\* get_user_pool_portfolio.  fetch_from_hive_engine is taken here by what
\* SpecFetch shows of it: it returns the provider's answer, or the empty
\* list when its own attempts are exhausted, and never raises.
\* ------------------------------------------------------------------
MaxPoolRetries == 2
DefaultPoolRetries == 5
DefaultPoolDelay == 3
PoolRetryBudgets == (0..MaxPoolRetries) \cup {DefaultPoolRetries}
PoolDelays == {1, DefaultPoolDelay}

\* random.uniform(0.5, 2.0), in half seconds
PoolJitterLo == 1
PoolJitterHi == 4
PoolJitters == {PoolJitterLo, PoolJitterHi}

\* a pair string is kept as the list split(":") makes of it
PairAB == <<"A", "B">>
PairBA == <<"B", "A">>
PairCD == <<"C", "D">>
PairMalformed == <<"ABC">>
TokenPairs == {PairAB, PairBA, PairMalformed}

\* provider records of the marketpools/pools table
Pool(id, base, quote, base_quantity, quote_quantity, has_shares, shares) ==
    [id |-> id, tokenPair |-> <<base, quote>>, baseSymbol |-> base,
     quoteSymbol |-> quote, baseQuantity |-> base_quantity,
     quoteQuantity |-> quote_quantity, hasTotalShares |-> has_shares,
     totalShares |-> shares]
PoolBA == Pool(1, "B", "A", 1000, 500, TRUE, 200)
PoolBAZero == Pool(2, "B", "A", 1000, 500, TRUE, 0)
PoolBANoShares == Pool(3, "B", "A", 1000, 500, FALSE, 0)
PoolCD == Pool(4, "C", "D", 40, 60, TRUE, 100)
PoolAB == Pool(5, "A", "B", 1000, 500, TRUE, 200)
Registries ==
    {<<>>, <<PoolBA>>, <<PoolBAZero>>, <<PoolBANoShares>>, <<PoolCD, PoolBA>>, <<PoolAB>>}

\* the query documents of lines 55, 63 and 71, and the empty one of line 79
ByTokenPair(token_pair) ==
    [shape |-> "tokenPair", tokenPair |-> token_pair, baseSymbol |-> "",
     quoteSymbol |-> "", limit |-> 1]
BySymbols(base, quote) ==
    [shape |-> "symbols", tokenPair |-> <<>>, baseSymbol |-> base,
     quoteSymbol |-> quote, limit |-> 1]
AllPools ==
    [shape |-> "all", tokenPair |-> <<>>, baseSymbol |-> "", quoteSymbol |-> "",
     limit |-> 100]
NoQuery ==
    [shape |-> "", tokenPair |-> <<>>, baseSymbol |-> "", quoteSymbol |-> "",
     limit |-> 0]

\* variant: the reversed lookup before the straight one
PoolQueriesReversedFirst(token_pair) ==
    <<ByTokenPair(token_pair),
      BySymbols(token_pair[2], token_pair[1]),
      BySymbols(token_pair[1], token_pair[2]),
      AllPools>>

\* lines 53-79: the four methods of one attempt, in order
PoolQueries(token_pair) ==
    <<ByTokenPair(token_pair),
      BySymbols(token_pair[1], token_pair[2]),
      BySymbols(token_pair[2], token_pair[1]),
      AllPools>>

\* api.find on the pools table: the records the query document selects
Selects(query, pool) ==
    CASE query.shape = "tokenPair" -> pool.tokenPair = query.tokenPair
      [] query.shape = "symbols" -> /\ pool.baseSymbol = query.baseSymbol
                                    /\ pool.quoteSymbol = query.quoteSymbol
      [] OTHER -> TRUE
Find(pools, query) ==
    LET hits == SelectSeq(pools, LAMBDA pool : Selects(query, pool))
    IN SubSeq(hits, 1, Min2(query.limit, Len(hits)))

\* lines 82-90: the test of the local filter
LocalMatch(pool, token_pair) ==
    \/ pool.tokenPair = token_pair
    \/ (pool.baseSymbol = token_pair[1] /\ pool.quoteSymbol = token_pair[2])
    \/ (pool.baseSymbol = token_pair[2] /\ pool.quoteSymbol = token_pair[1])

\* lines 81-94: the first record of all_pools that passes it
RECURSIVE LocalFilter(_, _)
LocalFilter(all_pools, token_pair) ==
    IF all_pools = <<>> THEN <<>>
    ELSE IF LocalMatch(Head(all_pools), token_pair) THEN <<Head(all_pools)>>
    ELSE LocalFilter(Tail(all_pools), token_pair)

\* variant: the factor is the attempt index itself
PoolBackoffByIndex(delay, attempt) == delay * attempt

\* line 49: delay * (attempt + 1), before the jitter
PoolBackoff(delay, attempt) == delay * (attempt + 1)

\* line 114: pool_info.get("totalShares", 0)
TotalSharesOf(pool) == IF pool.hasTotalShares THEN pool.totalShares ELSE 0

\* variant: only a negative total is refused
ZeroSharesNegative(total_shares) == total_shares < 0

\* line 116: total_shares == 0
ZeroShares(total_shares) == total_shares = 0

\* variant: the tokens named as the caller wrote them
PoolDataAsRequested(pool, token_pair) ==
    [token_pair |-> token_pair, base_token |-> token_pair[1],
     quote_token |-> token_pair[2], base_quantity |-> pool.baseQuantity,
     quote_quantity |-> pool.quoteQuantity, total_shares |-> TotalSharesOf(pool),
     pool_id |-> pool.id]

\* lines 110-114 and 120-128: the dictionary returned
PoolData(pool, token_pair) ==
    [token_pair |-> token_pair, base_token |-> pool.baseSymbol,
     quote_token |-> pool.quoteSymbol, base_quantity |-> pool.baseQuantity,
     quote_quantity |-> pool.quoteQuantity, total_shares |-> TotalSharesOf(pool),
     pool_id |-> pool.id]

\* lines 105-132: what is returned for the record the loop ended with
PoolResult(info, token_pair) ==
    IF info = <<>> THEN <<>>
    ELSE IF ZeroShares(TotalSharesOf(info[1])) THEN <<>>
    ELSE <<PoolData(info[1], token_pair)>>

PoolEvent(op, query, attempt, dur, jitter, val) ==
    [op |-> op, query |-> query, attempt |-> attempt, dur |-> dur,
     jitter |-> jitter, val |-> val]

NeverCalled == [called |-> FALSE, ret |-> <<>>]

\* lines 105-132: the end of get_diesel_pool_info
PoolReturn(token_pair, info, answered) ==
    /\ pool_info' = info
    /\ p_ret' = PoolResult(info, token_pair)
    /\ p_pc' = "done"
    /\ p_last' = IF answered /\ token_pair \in DOMAIN p_last
                   THEN [p_last EXCEPT ![token_pair] =
                            [called |-> TRUE, ret |-> PoolResult(info, token_pair)]]
                   ELSE p_last

\* lines 30-45: the call, the split of the pair and the entry into the loop
StartPoolInfo(token_pair, retries, delay, caller) ==
    /\ p_pair' = token_pair
    /\ p_retries' = retries
    /\ p_delay' = delay
    /\ p_caller' = caller
    /\ p_attempt' = 0
    /\ p_log' = <<>>
    /\ p_answered' = TRUE
    /\ IF Len(token_pair) # 2 \/ retries = 0
         THEN /\ pool_info' = <<>>
              /\ p_ret' = <<>>
              /\ p_pc' = "done"
              /\ p_step' = 0
              /\ UNCHANGED p_last
         ELSE /\ pool_info' = <<>>
              /\ p_ret' = <<>>
              /\ p_pc' = "query"
              /\ p_step' = 1
              /\ UNCHANGED p_last

Callable == p_pc = "idle" \/ (p_pc = "done" /\ p_caller = "direct")

GetDieselPoolInfo(token_pair, retries, delay) ==
    /\ Callable
    /\ StartPoolInfo(token_pair, retries, delay, "direct")
    /\ p_holdings' = <<>>
    /\ pool_data' = <<>>
    /\ p_values' = NoValues
    /\ UNCHANGED <<registry, p_todo>>
    /\ UNCHANGED <<fvars, log, mvars, cvars, later>>

\* lines 47-51: the wait before a whole-search attempt after the first
PoolSleep ==
    /\ p_pc = "sleep"
    /\ \E jitter \in PoolJitters :
         p_log' = Append(p_log, PoolEvent("sleep", NoQuery, p_attempt,
                                          PoolBackoff(p_delay, p_attempt), jitter, <<>>))
    /\ p_pc' = "query"
    /\ p_step' = 1
    /\ UNCHANGED <<registry, p_caller, p_pair, p_retries, p_delay, p_attempt, pool_info,
                   p_ret, p_answered, p_last, p_todo, p_holdings, pool_data, p_values>>
    /\ UNCHANGED <<fvars, log, mvars, cvars, later>>

\* lines 53-76: methods 1 to 3
PoolQueryDirect ==
    /\ p_pc = "query"
    /\ p_step \in 1..3
    /\ \E exhausted \in BOOLEAN :
         LET query == PoolQueries(p_pair)[p_step]
             pool_data_ == IF exhausted THEN <<>> ELSE Find(registry, query)
             answered == p_answered /\ ~exhausted
         IN /\ p_log' = Append(p_log, PoolEvent("fetch", query, p_attempt, 0, 0, pool_data_))
            /\ p_answered' = answered
            /\ IF pool_data_ # <<>>
                 THEN /\ PoolReturn(p_pair, <<pool_data_[1]>>, answered)
                      /\ UNCHANGED p_step
                 ELSE /\ p_step' = p_step + 1
                      /\ UNCHANGED <<p_pc, pool_info, p_ret, p_last>>
    /\ UNCHANGED <<registry, p_caller, p_pair, p_retries, p_delay, p_attempt, p_todo,
                   p_holdings, pool_data, p_values>>
    /\ UNCHANGED <<fvars, log, mvars, cvars, later>>

\* lines 78-99: method 4, and the step to the next attempt or out of the loop
PoolQueryAll ==
    /\ p_pc = "query"
    /\ p_step = 4
    /\ \E exhausted \in BOOLEAN :
         LET query == PoolQueries(p_pair)[p_step]
             all_pools == IF exhausted THEN <<>> ELSE Find(registry, query)
             match == LocalFilter(all_pools, p_pair)
             answered == p_answered /\ ~exhausted
         IN /\ p_log' = Append(p_log, PoolEvent("fetch", query, p_attempt, 0, 0, all_pools))
            /\ p_answered' = answered
            /\ IF match # <<>>
                 THEN /\ PoolReturn(p_pair, match, answered)
                      /\ UNCHANGED <<p_step, p_attempt>>
                 ELSE IF p_attempt + 1 < p_retries
                   THEN /\ p_attempt' = p_attempt + 1
                        /\ p_pc' = "sleep"
                        /\ UNCHANGED <<p_step, pool_info, p_ret, p_last>>
                   ELSE /\ PoolReturn(p_pair, <<>>, answered)
                        /\ UNCHANGED <<p_step, p_attempt>>
    /\ UNCHANGED <<registry, p_caller, p_pair, p_retries, p_delay, p_todo,
                   p_holdings, pool_data, p_values>>
    /\ UNCHANGED <<fvars, log, mvars, cvars, later>>

\* token_prices, in half HIVE; a token without a price is missing
TokenPrices == [t \in {"A", "B"} |-> IF t = "A" THEN Unit ELSE 2 * Unit]
\* variant: every token is worth one HIVE
PriceOfUnit(token_prices, token) == Unit
\* lines 222-223: token_prices.get(token, 0)
PriceOf(token_prices, token) ==
    IF token \in DOMAIN token_prices THEN token_prices[token] ELSE 0

\* lines 205-244 calculate_pool_token_values; the quantities of the
\* modelled pools make every quotient exact
calculate_pool_token_values(user_shares, info, token_prices) ==
    IF info = <<>> \/ user_shares = 0
      THEN [kind |-> "zeros", base_amount |-> 0, quote_amount |-> 0,
            total_value_hive |-> 0, share_percentage |-> 0]
    ELSE IF info[1].total_shares = 0
      THEN [kind |-> "ZeroDivisionError", base_amount |-> 0, quote_amount |-> 0,
            total_value_hive |-> 0, share_percentage |-> 0]
    ELSE LET total_shares == info[1].total_shares
             base_amount == (info[1].base_quantity * user_shares) \div total_shares
             quote_amount == (info[1].quote_quantity * user_shares) \div total_shares
             base_value_hive == base_amount * PriceOf(token_prices, info[1].base_token)
             quote_value_hive == quote_amount * PriceOf(token_prices, info[1].quote_token)
         IN [kind |-> "values", base_amount |-> base_amount,
             quote_amount |-> quote_amount,
             total_value_hive |-> base_value_hive + quote_value_hive,
             share_percentage |-> (user_shares * 100) \div total_shares]

\* pool_holdings as get_diesel_pool_holdings builds it: well-formed pairs,
\* shares > 0
Holdings == { [pair \in pairs |-> 20] : pairs \in SUBSET {PairBA, PairCD} }

\* variant: a position worth nothing is listed too
WorthListingAny(pool_values) == pool_values.total_value_hive >= 0
\* line 277: the test a position passes to be listed
WorthListing(pool_values) == pool_values.total_value_hive > 0

\* lines 246-261: get_user_pool_portfolio up to its loop
GetUserPoolPortfolio(holdings) ==
    /\ Callable
    /\ p_holdings' = holdings
    /\ p_todo' = DOMAIN holdings
    /\ pool_data' = <<>>
    /\ p_pc' = "loop"
    /\ p_caller' = "portfolio"
    /\ p_pair' = <<>>
    /\ p_retries' = 0
    /\ p_delay' = 0
    /\ p_attempt' = 0
    /\ p_step' = 0
    /\ pool_info' = <<>>
    /\ p_ret' = <<>>
    /\ p_log' = <<>>
    /\ p_answered' = TRUE
    /\ p_values' = NoValues
    /\ UNCHANGED <<registry, p_last>>
    /\ UNCHANGED <<fvars, log, mvars, cvars, later>>

\* lines 264-266: the next position and its call of get_diesel_pool_info
PortfolioLookup ==
    /\ p_pc = "loop"
    /\ \E pool_token_pair \in p_todo :
         /\ StartPoolInfo(pool_token_pair, DefaultPoolRetries, DefaultPoolDelay, "portfolio")
         /\ p_todo' = p_todo \ {pool_token_pair}
    /\ UNCHANGED <<registry, p_holdings, pool_data, p_values>>
    /\ UNCHANGED <<fvars, log, mvars, cvars, later>>

\* lines 268-285: the values of the position and its entry in the list
PortfolioValues ==
    /\ p_pc = "done"
    /\ p_caller = "portfolio"
    /\ IF p_ret # <<>>
         THEN LET pool_values == calculate_pool_token_values(p_holdings[p_pair], p_ret,
                                                             TokenPrices)
              IN /\ p_values' = pool_values
                 /\ IF pool_values.kind = "ZeroDivisionError"
                      THEN /\ p_pc' = "raised"
                           /\ UNCHANGED pool_data
                      ELSE /\ p_pc' = "loop"
                           /\ pool_data' =
                                IF WorthListing(pool_values)
                                  THEN Append(pool_data,
                                         [token_pair |-> p_pair,
                                          base_amount |-> pool_values.base_amount,
                                          quote_amount |-> pool_values.quote_amount,
                                          total_hive |-> pool_values.total_value_hive])
                                  ELSE pool_data
         ELSE /\ p_pc' = "loop"
              /\ UNCHANGED <<pool_data, p_values>>
    /\ UNCHANGED <<registry, p_caller, p_pair, p_retries, p_delay, p_attempt, p_step,
                   pool_info, p_ret, p_log, p_answered, p_last, p_todo, p_holdings>>
    /\ UNCHANGED <<fvars, log, mvars, cvars, later>>

\* line 289: return pool_data
PortfolioReturn ==
    /\ p_pc = "loop"
    /\ p_todo = {}
    /\ p_pc' = "idle"
    /\ p_caller' = ""
    /\ p_pair' = <<>>
    /\ p_retries' = 0
    /\ p_delay' = 0
    /\ p_attempt' = 0
    /\ p_step' = 0
    /\ pool_info' = <<>>
    /\ p_ret' = <<>>
    /\ p_log' = <<>>
    /\ p_answered' = TRUE
    /\ p_values' = NoValues
    /\ UNCHANGED <<registry, p_last, p_todo, p_holdings, pool_data>>
    /\ UNCHANGED <<fvars, log, mvars, cvars, later>>

InitPool ==
    /\ f_pc = "idle"
    /\ f_retries = DefaultFetchRetries
    /\ f_delay = DefaultFetchDelay
    /\ f_table = ""
    /\ f_attempt = 0
    /\ f_result = NoResult
    /\ log = <<>>
    /\ MarketIdle
    /\ registry \in Registries
    /\ p_pc = "idle"
    /\ p_caller = ""
    /\ p_pair = <<>>
    /\ p_retries = 0
    /\ p_delay = 0
    /\ p_attempt = 0
    /\ p_step = 0
    /\ pool_info = <<>>
    /\ p_ret = <<>>
    /\ p_log = <<>>
    /\ p_answered = TRUE
    /\ p_last = [pair \in {PairAB, PairBA} |-> NeverCalled]
    /\ p_todo = {}
    /\ p_holdings = <<>>
    /\ pool_data = <<>>
    /\ p_values = NoValues
    /\ CacheIdle
    /\ LaterIdle

NextPool ==
    \/ \E token_pair \in TokenPairs, retries \in PoolRetryBudgets, delay \in PoolDelays :
         GetDieselPoolInfo(token_pair, retries, delay)
    \/ PoolSleep
    \/ PoolQueryDirect
    \/ PoolQueryAll
    \/ \E holdings \in Holdings : GetUserPoolPortfolio(holdings)
    \/ PortfolioLookup
    \/ PortfolioValues
    \/ PortfolioReturn

SpecPool == InitPool /\ [][NextPool]_vars

\* ---- what the pool claims speak of ----
\* get_diesel_pool_info is inside its loop
Searching == p_pc \in {"query", "sleep"}
PoolFetchIdx == { i \in 1..Len(p_log) : p_log[i].op = "fetch" }
PoolSleepIdx == { i \in 1..Len(p_log) : p_log[i].op = "sleep" }
\* the place of fetch i among the fetches of its attempt
PlaceInAttempt(i) ==
    1 + Cardinality({ j \in PoolFetchIdx : j < i /\ p_log[j].attempt = p_log[i].attempt })
TradesPair(pool) ==
    \/ pool.tokenPair = p_pair
    \/ {pool.baseSymbol, pool.quoteSymbol} = {p_pair[1], p_pair[2]}
MatchesIn(val) == { k \in 1..Len(val) : TradesPair(val[k]) }
\* fetch i came back with a record for the pair
Supplies(i) ==
    IF p_log[i].query.shape = "all" THEN MatchesIn(p_log[i].val) # {}
    ELSE p_log[i].val # <<>>
Supplied(i) ==
    IF p_log[i].query.shape = "all"
      THEN LET k == CHOOSE k \in MatchesIn(p_log[i].val) :
                       \A l \in MatchesIn(p_log[i].val) : k <= l
           IN p_log[i].val[k]
      ELSE p_log[i].val[1]
\* the fetches that open a whole search
WholeSearches == { i \in PoolFetchIdx : p_log[i].query.shape = "tokenPair" }

\* C14: the fetches of one attempt are, in this order, the exact tokenPair
\* query, the (base, quote) query, the (quote, base) query and the bulk
\* fetch; the first fetch that comes back with a record for the pair ends the
\* search: that record is the pool record and nothing is fetched after it.
C14_QueryOrder ==
    /\ \A i \in PoolFetchIdx :
         LET k == PlaceInAttempt(i)
             q == p_log[i].query
         IN /\ k <= 4
            /\ k > 1 => (p_log[i - 1].op = "fetch" /\ p_log[i - 1].attempt = p_log[i].attempt)
            /\ k = 1 => (q.shape = "tokenPair" /\ q.tokenPair = p_pair)
            /\ k = 2 => (q.shape = "symbols" /\ q.baseSymbol = p_pair[1]
                                             /\ q.quoteSymbol = p_pair[2])
            /\ k = 3 => (q.shape = "symbols" /\ q.baseSymbol = p_pair[2]
                                             /\ q.quoteSymbol = p_pair[1])
            /\ k = 4 => q.shape = "all"
            /\ Supplies(i) => /\ i = Len(p_log)
                              /\ ~Searching
                              /\ pool_info = <<Supplied(i)>>
    /\ (~Searching /\ pool_info # <<>>) => (p_log # <<>> /\ Supplies(Len(p_log)))

\* the reversed query supplies the record in a second attempt
C14_Witness ==
    /\ p_pc = "done"
    /\ p_log # <<>>
    /\ LET i == Len(p_log)
       IN /\ Supplies(i)
          /\ p_log[i].attempt = 1
          /\ PlaceInAttempt(i) = 3
          /\ \E j \in PoolFetchIdx : p_log[j].attempt = 0 /\ p_log[j].query.shape = "all"

HoldsOnePoolBA == registry \in {<<PoolBA>>, <<PoolCD, PoolBA>>}
SameReserves(r1, r2) ==
    /\ r1.base_token = r2.base_token
    /\ r1.quote_token = r2.quote_token
    /\ r1.base_quantity = r2.base_quantity
    /\ r1.quote_quantity = r2.quote_quantity
    /\ r1.total_shares = r2.total_shares

\* C15: with one pool registered as base B, quote A and shares > 0, the
\* calls for A:B and for B:A that the provider answers both resolve, and to
\* the same base token, quote token, quantities and total shares.
C15_OrderInvariant ==
    HoldsOnePoolBA =>
        /\ \A pair \in {PairAB, PairBA} : p_last[pair].called => p_last[pair].ret # <<>>
        /\ (p_last[PairAB].called /\ p_last[PairBA].called) =>
               /\ SameReserves(p_last[PairAB].ret[1], p_last[PairBA].ret[1])
               /\ p_last[PairAB].ret[1].base_token = "B"
               /\ p_last[PairAB].ret[1].quote_token = "A"
               /\ p_last[PairAB].ret[1].base_quantity = 1000
               /\ p_last[PairAB].ret[1].quote_quantity = 500
               /\ p_last[PairAB].ret[1].total_shares = 200

C15_Witness ==
    /\ registry = <<PoolBA>>
    /\ p_last[PairAB].called
    /\ p_last[PairBA].called
    /\ p_last[PairAB].ret # <<>>
    /\ p_last[PairBA].ret # <<>>
    /\ p_last[PairAB].ret[1].token_pair # p_last[PairBA].ret[1].token_pair

\* C16: a returned pool record never has total_shares 0; a matched record
\* with totalShares 0 or without the field gives None; and the values of a
\* position are never computed with total_shares 0, so no division by zero.
C16_NoZeroShares ==
    /\ p_ret # <<>> => p_ret[1].total_shares # 0
    /\ (~Searching /\ pool_info # <<>>
          /\ (~pool_info[1].hasTotalShares \/ pool_info[1].totalShares = 0)) =>
             p_ret = <<>>
    /\ p_pc # "raised"
    /\ p_values.kind # "ZeroDivisionError"
    /\ \A k \in 1..Len(pool_data) :
         \E j \in 1..Len(registry) :
            /\ registry[j].tokenPair \in {pool_data[k].token_pair,
                                         <<pool_data[k].token_pair[2],
                                           pool_data[k].token_pair[1]>>}
            /\ registry[j].hasTotalShares
            /\ registry[j].totalShares # 0

\* a held position whose pool record lacks totalShares
C16_Witness ==
    /\ p_pc = "done"
    /\ p_caller = "portfolio"
    /\ pool_info # <<>>
    /\ ~pool_info[1].hasTotalShares
    /\ p_ret = <<>>

\* C17: the whole search runs at most `retries` times and ends with the
\* attempt that finds a pool; before each attempt of index >= 1, and never
\* before attempt 0, there is a sleep of delay * (attempt + 1) plus a jitter
\* of 0.5 to 2.0 seconds; when no attempt finds a pool the result is None.
C17_WholeSearchRetries ==
    LET starts == WholeSearches
        sleeps == PoolSleepIdx
        fetches == PoolFetchIdx
    IN
    /\ \A i \in 1..Len(p_log) : p_log[i].attempt \in 0..(p_retries - 1)
    /\ p_log # <<>> => (p_log[1].op = "fetch" /\ p_log[1].attempt = 0)
    /\ Cardinality(starts) <= p_retries
    /\ \A i \in starts : \A j \in starts :
         i < j => p_log[i].attempt < p_log[j].attempt
    /\ \A i \in sleeps :
         /\ p_log[i].attempt >= 1
         /\ p_log[i].dur = p_delay * (p_log[i].attempt + 1)
         /\ p_log[i].jitter \in PoolJitterLo..PoolJitterHi
         /\ i > 1 /\ p_log[i - 1].op = "fetch"
         /\ p_log[i - 1].attempt = p_log[i].attempt - 1
         /\ p_log[i - 1].query.shape = "all"
    /\ \A i \in starts :
         p_log[i].attempt >= 1 =>
            (p_log[i - 1].op = "sleep" /\ p_log[i - 1].attempt = p_log[i].attempt)
    /\ (~Searching /\ pool_info # <<>>) =>
          \A i \in fetches : i < Len(p_log) => ~Supplies(i)
    /\ (~Searching /\ pool_info = <<>>) =>
          /\ p_ret = <<>>
          /\ Len(p_pair) = 2 =>
               /\ Cardinality(starts) = p_retries
               /\ Cardinality(fetches) = 4 * p_retries
               /\ \A i \in fetches : ~Supplies(i)

\* five whole searches with the default budget, none finding the pool
C17_Witness ==
    /\ p_pc = "done"
    /\ p_retries = 5
    /\ p_delay = 3
    /\ pool_info = <<>>
    /\ p_ret = <<>>
    /\ Cardinality(WholeSearches) = 5
    /\ Cardinality(PoolSleepIdx) = 4
    /\ \E i \in PoolSleepIdx : p_log[i].attempt = 4 /\ p_log[i].dur = 15 /\ p_log[i].jitter = 4

\* ------------------------------------------------------------------
\* modules/cache_utils.py and the cache-first readers of
\* modules/layer1_holdings.py.  call_hive_api and the HTTP request are
\* taken by their result.
\* ------------------------------------------------------------------
CACHE_EXPIRATION_SECONDS == 900
StartTime == 5000
\* the moments at which something is done: around the start and around one
\* expiration window later
Times == {StartTime, StartTime + 1, StartTime + CACHE_EXPIRATION_SECONDS,
          StartTime + CACHE_EXPIRATION_SECONDS + 1}

\* a cache entry is the mapping {"value": ..., "timestamp": ...}; `fields`
\* holds the keys it has
Entry(value, timestamp) ==
    [fields |-> {"value", "timestamp"}, value |-> value, timestamp |-> timestamp]
EntryWithoutTimestamp(value) == [fields |-> {"value"}, value |-> value, timestamp |-> 0]
EmptyEntry == [fields |-> {}, value |-> 0, timestamp |-> 0]

\* variant: the window closed at its end
is_cache_valid_inclusive(entry, now) ==
    IF entry.fields = {} \/ "timestamp" \notin entry.fields THEN FALSE
    ELSE (now - entry.timestamp) <= CACHE_EXPIRATION_SECONDS

\* lines 54-58 is_cache_valid, with time.time() as `now`
is_cache_valid(entry, now) ==
    IF entry.fields = {} \/ "timestamp" \notin entry.fields THEN FALSE
    ELSE (now - entry.timestamp) < CACHE_EXPIRATION_SECONDS

\* lines 64-68 remove_expired
remove_expired(cache, now) ==
    LET keys_to_delete ==
          { k \in DOMAIN cache :
              \/ "timestamp" \notin cache[k].fields
              \/ now - cache[k].timestamp > CACHE_EXPIRATION_SECONDS }
    IN [k \in DOMAIN cache \ keys_to_delete |-> cache[k]]

\* json.dump of a cache: the document is the set of its members
JsonDump(cache) == { <<k, cache[k]>> : k \in DOMAIN cache }
\* json.load of such a document
JsonLoad(doc) ==
    [k \in { member[1] : member \in doc } |->
        (CHOOSE member \in doc : member[1] = k)[2]]
Written(cache) == [exists |-> TRUE, doc |-> JsonDump(cache)]

\* lines 22-34: a cache named in the `global` statement of load_cache
LoadGlobal(file, cache) == IF file.exists THEN JsonLoad(file.doc) ELSE cache
\* lines 35-40: diesel_cache is not named there, the assignment of line 38
\* binds a local and the module's mapping stays as it was
LoadDiesel(file, cache) == cache

Put(cache, key, entry) == [k \in DOMAIN cache \cup {key} |-> IF k = key THEN entry ELSE cache[k]]

\* the record of an operation: a reader keeps the entry it found, the sweep
\* the caches it found, save_cache the files it found; `saved` marks a load
\* that follows a save, `clean` a save that follows such a load
Op(op, key, entry, remote, ret) ==
    [op |-> op, key |-> key, entry |-> entry, remote |-> remote, ret |-> ret,
     at |-> clock,
     caches |-> IF op = "clear_caches"
                  THEN <<cu_price_cache, cu_market_cache, cu_diesel_cache>> ELSE <<>>,
     files |-> IF op = "save_cache" THEN <<price_file, market_file, diesel_file>> ELSE <<>>,
     saved |-> op = "load_cache" /\ c_op.op = "save_cache",
     clean |-> op = "save_cache" /\ c_op.op = "load_cache" /\ c_op.saved,
     failed |-> FALSE]
\* the record of a reader whose remote source failed: the except branch of
\* a price function, the else branch of a layer-1 reader
Failed(record) == [record EXCEPT !.failed = TRUE]
Lookup(cache, key) == IF key \in DOMAIN cache THEN <<cache[key]>> ELSE <<>>

\* lines 42-52 save_cache
SaveFiles(price, market, diesel) ==
    /\ price_file' = Written(price)
    /\ market_file' = Written(market)
    /\ diesel_file' = Written(diesel)

\* time passes
Tick ==
    /\ \E time \in Times : time > clock /\ clock' = time
    /\ UNCHANGED <<cu_price_cache, cu_market_cache, cu_diesel_cache, l1_cache, l1_defined,
                   price_file, market_file, diesel_file, c_op>>
    /\ UNCHANGED <<fvars, log, mvars, pvars, later>>

\* what the price request can give: a price, a body without one, an error
HbdOutcomes == {[kind |-> "ok", val |-> 2], [kind |-> "nokey", val |-> 0],
                [kind |-> "exc", val |-> 0]}
HbdDefault == 1

\* modules/cache_utils.py with the `l1_cache = {}` that layer1_holdings.py
\* line 17 imports from it; the cache_utils.py of the source tree (lines 13-15) defines
\* price_cache, market_cache and diesel_cache only
L1CacheSupplied == TRUE

\* layer1_holdings.py line 17, `from modules.cache_utils import price_cache,
\* l1_cache, is_cache_valid, save_cache`, where cache_utils has no l1_cache:
\* importing the module raises ImportError, and none of its functions
\* (get_hbd_price_usd, get_hive_account_info, get_hive_global_properties)
\* comes to be called
ImportLayer1Holdings ==
    /\ ~l1_defined
    /\ c_op' = Op("import modules.layer1_holdings", "l1_cache", <<>>, FALSE, "ImportError")
    /\ UNCHANGED <<clock, cu_price_cache, cu_market_cache, cu_diesel_cache, l1_cache,
                   l1_defined, price_file, market_file, diesel_file>>
    /\ UNCHANGED <<fvars, log, mvars, pvars, later>>

\* what a cache-first reader leaves: the value it returns, the cache after
\* it, whether the remote source was asked, whether save_cache ran, whether
\* the source failed
ReadResult(ret, cache, remote, saved, failed) ==
    [ret |-> ret, cache |-> cache, remote |-> remote, saved |-> saved, failed |-> failed]

\* layer1_holdings.py lines 249-264 get_hbd_price_usd on price_cache at time
\* `now`, the request answering `outcome`; `default` is the 1.0 of lines 257
\* and 264
get_hbd_price_usd(cache, now, outcome, default) ==
    IF "HBD" \in DOMAIN cache /\ is_cache_valid(cache["HBD"], now)
    THEN ReadResult(cache["HBD"].value, cache, FALSE, FALSE, FALSE)
    ELSE IF outcome.kind = "exc"
    THEN ReadResult(default, cache, TRUE, FALSE, TRUE)
    ELSE LET price == IF outcome.kind = "ok" THEN outcome.val ELSE default
         IN ReadResult(price, Put(cache, "HBD", Entry(price, now)), TRUE, TRUE, FALSE)

\* the call of the function in a process of its own
GetHbdPriceUsd ==
    /\ l1_defined
    /\ \E outcome \in HbdOutcomes :
         LET read == get_hbd_price_usd(cu_price_cache, clock, outcome, HbdDefault)
             record == Op("get_hbd_price_usd", "HBD", Lookup(cu_price_cache, "HBD"),
                          read.remote, read.ret)
         IN /\ c_op' = IF read.failed THEN Failed(record) ELSE record
            /\ cu_price_cache' = read.cache
            /\ IF read.saved
               THEN SaveFiles(read.cache, cu_market_cache, cu_diesel_cache)
               ELSE UNCHANGED <<price_file, market_file, diesel_file>>
    /\ UNCHANGED <<clock, cu_market_cache, cu_diesel_cache, l1_cache, l1_defined>>
    /\ UNCHANGED <<fvars, log, mvars, pvars, later>>

\* what call_hive_api can give: None, an empty list, a result
ApiOutcomes == {[kind |-> "none", val |-> 0], [kind |-> "empty", val |-> 0],
                [kind |-> "ok", val |-> 7]}

\* the cache-first body both layer-1 readers share, lines 105-121 and
\* 133-148, on l1_cache at time `now`; a failed read returns None
l1_read(cache, now, cache_key, outcome) ==
    IF cache_key \in DOMAIN cache /\ is_cache_valid(cache[cache_key], now)
    THEN ReadResult(cache[cache_key].value, cache, FALSE, FALSE, FALSE)
    ELSE IF outcome.kind = "ok"
    THEN ReadResult(outcome.val, Put(cache, cache_key, Entry(outcome.val, now)),
                    TRUE, TRUE, FALSE)
    ELSE ReadResult(0, cache, TRUE, FALSE, TRUE)

\* the call of one of the two readers in a process of its own
L1Read(op, cache_key, outcome) ==
    LET read == l1_read(l1_cache, clock, cache_key, outcome)
        record == Op(op, cache_key, Lookup(l1_cache, cache_key), read.remote, read.ret)
    IN /\ c_op' = IF read.failed THEN Failed(record) ELSE record
       /\ l1_cache' = read.cache
       /\ IF read.saved
          THEN SaveFiles(cu_price_cache, cu_market_cache, cu_diesel_cache)
          ELSE UNCHANGED <<price_file, market_file, diesel_file>>

\* layer1_holdings.py lines 92-121 get_hive_account_info
GetHiveAccountInfo ==
    /\ l1_defined
    /\ \E outcome \in ApiOutcomes :
         L1Read("get_hive_account_info", "hive_account_alice", outcome)
    /\ UNCHANGED <<clock, cu_price_cache, cu_market_cache, cu_diesel_cache, l1_defined>>
    /\ UNCHANGED <<fvars, log, mvars, pvars, later>>

\* layer1_holdings.py lines 123-148 get_hive_global_properties
GetHiveGlobalProperties ==
    /\ l1_defined
    /\ \E outcome \in ApiOutcomes \ {[kind |-> "empty", val |-> 0]} :
         L1Read("get_hive_global_properties", "hive_global_props", outcome)
    /\ UNCHANGED <<clock, cu_price_cache, cu_market_cache, cu_diesel_cache, l1_defined>>
    /\ UNCHANGED <<fvars, log, mvars, pvars, later>>

\* a client's put into the pool cache: the key is overwritten with the
\* value and timestamp = now
PutDiesel ==
    /\ cu_diesel_cache' = Put(cu_diesel_cache, "A:B", Entry(4, clock))
    /\ c_op' = Op("put", "A:B", Lookup(cu_diesel_cache, "A:B"), FALSE, 4)
    /\ UNCHANGED <<clock, cu_price_cache, cu_market_cache, l1_cache, l1_defined,
                   price_file, market_file, diesel_file>>
    /\ UNCHANGED <<fvars, log, mvars, pvars, later>>

\* lines 42-52 save_cache
SaveCache ==
    /\ SaveFiles(cu_price_cache, cu_market_cache, cu_diesel_cache)
    /\ c_op' = Op("save_cache", "", <<>>, FALSE, 0)
    /\ UNCHANGED <<clock, cu_price_cache, cu_market_cache, cu_diesel_cache, l1_cache, l1_defined>>
    /\ UNCHANGED <<fvars, log, mvars, pvars, later>>

\* lines 60-73 clear_caches: the three caches lose their expired entries and
\* are written to their files; l1_cache is not among them
RemoveExpiredAndSave ==
    LET price == remove_expired(cu_price_cache, clock)
        market == remove_expired(cu_market_cache, clock)
        diesel == remove_expired(cu_diesel_cache, clock)
    IN /\ cu_price_cache' = price
       /\ cu_market_cache' = market
       /\ cu_diesel_cache' = diesel
       /\ SaveFiles(price, market, diesel)

\* the call of clear_caches in a process of its own
ClearCaches ==
    /\ RemoveExpiredAndSave
    /\ c_op' = Op("clear_caches", "", <<>>, FALSE, 0)
    /\ UNCHANGED <<clock, l1_cache, l1_defined>>
    /\ UNCHANGED <<fvars, log, mvars, pvars, later>>

\* lines 13-15, 17-40 and 76: a fresh process imports the module
LoadCache ==
    /\ cu_price_cache' = LoadGlobal(price_file, NoEntries)
    /\ cu_market_cache' = LoadGlobal(market_file, NoEntries)
    /\ cu_diesel_cache' = LoadDiesel(diesel_file, NoEntries)
    /\ l1_cache' = NoEntries
    /\ c_op' = Op("load_cache", "", <<>>, FALSE, 0)
    /\ UNCHANGED <<clock, l1_defined, price_file, market_file, diesel_file>>
    /\ UNCHANGED <<fvars, log, mvars, pvars, later>>

\* the files an earlier run can have left behind
PriceFiles ==
    {NoFile} \cup
    { Written([k \in {"HBD"} |-> entry]) :
        entry \in { Entry(3, StartTime - CACHE_EXPIRATION_SECONDS),
                    Entry(3, StartTime - CACHE_EXPIRATION_SECONDS + 1),
                    EntryWithoutTimestamp(3), EmptyEntry } }
MarketFiles ==
    {NoFile, Written([k \in {"LEO"} |-> Entry(3, StartTime - CACHE_EXPIRATION_SECONDS - 1)])}
DieselFiles == {NoFile, Written([k \in {"A:B"} |-> Entry(4, StartTime - 1)])}

InitCache ==
    /\ f_pc = "idle"
    /\ f_retries = DefaultFetchRetries
    /\ f_delay = DefaultFetchDelay
    /\ f_table = ""
    /\ f_attempt = 0
    /\ f_result = NoResult
    /\ log = <<>>
    /\ MarketIdle
    /\ PoolIdle
    /\ clock = StartTime
    /\ price_file \in PriceFiles
    /\ market_file \in MarketFiles
    /\ diesel_file \in DieselFiles
    /\ cu_price_cache = LoadGlobal(price_file, NoEntries)
    /\ cu_market_cache = LoadGlobal(market_file, NoEntries)
    /\ cu_diesel_cache = LoadDiesel(diesel_file, NoEntries)
    /\ l1_cache = NoEntries
    /\ l1_defined \in {FALSE, L1CacheSupplied}
    /\ c_op = NoOp
    /\ LaterIdle

NextCache ==
    \/ Tick
    \/ ImportLayer1Holdings
    \/ GetHbdPriceUsd
    \/ GetHiveAccountInfo
    \/ GetHiveGlobalProperties
    \/ PutDiesel
    \/ SaveCache
    \/ ClearCaches
    \/ LoadCache

SpecCache == InitCache /\ [][NextCache]_vars

\* ---- what the cache claims speak of ----
Readers == {"get_hbd_price_usd", "get_hive_account_info", "get_hive_global_properties"}
HasTimestamp(entry) == "timestamp" \in entry.fields
Age(entry, now) == now - entry.timestamp
FreshAt(entry, now) == entry.fields # {} /\ HasTimestamp(entry) /\ Age(entry, now) < 900
EntriesOf(cache) == { cache[k] : k \in DOMAIN cache }
CachesNow == <<cu_price_cache, cu_market_cache, cu_diesel_cache>>
FilesNow == <<price_file, market_file, diesel_file>>

\* C18: is_cache_valid holds of an entry exactly when the entry is non-empty,
\* has a timestamp and is younger than 900 s; a cache-first reader returns
\* the cached value without a remote call exactly when is_cache_valid holds
\* of the entry under its key, and fetches otherwise.
C18_CacheFirstReaders ==
    /\ \A entry \in EntriesOf(cu_price_cache) \cup EntriesOf(l1_cache)
                     \cup EntriesOf(cu_market_cache) \cup EntriesOf(cu_diesel_cache) :
         \A now \in Times : is_cache_valid(entry, now) <=> FreshAt(entry, now)
    /\ c_op.op \in Readers =>
         LET hit == c_op.entry # <<>> /\ FreshAt(c_op.entry[1], c_op.at)
         IN /\ hit => (~c_op.remote /\ c_op.ret = c_op.entry[1].value)
            /\ ~hit => c_op.remote

\* an account entry read when it is exactly 900 s old is fetched again
C18_Witness ==
    /\ c_op.op = "get_hive_account_info"
    /\ c_op.entry # <<>>
    /\ HasTimestamp(c_op.entry[1])
    /\ Age(c_op.entry[1], c_op.at) = 900
    /\ c_op.remote
    /\ "hive_account_alice" \in DOMAIN l1_cache
    /\ l1_cache["hive_account_alice"].timestamp = c_op.at

\* C19: after clear_caches has run at time now, each of the three caches
\* has lost every entry of age now - timestamp >= 900 and still holds,
\* unchanged, every entry of age < 900.
C19_Original ==
    c_op.op = "clear_caches" =>
        \A i \in 1..3 :
            LET before == c_op.caches[i]
                after == CachesNow[i]
            IN \A k \in DOMAIN before :
                 HasTimestamp(before[k]) =>
                    /\ Age(before[k], c_op.at) >= 900 => k \notin DOMAIN after
                    /\ Age(before[k], c_op.at) < 900 =>
                          (k \in DOMAIN after /\ after[k] = before[k])

\* C20: after save_cache has written the files and load_cache has run in a
\* fresh process, each of the three caches equals the mapping stored in its
\* file; a save_cache that follows leaves the content of every file unchanged.
C20_Original ==
    /\ (c_op.op = "load_cache" /\ c_op.saved) =>
          \A i \in 1..3 : FilesNow[i].exists /\ CachesNow[i] = JsonLoad(FilesNow[i].doc)
    /\ (c_op.op = "save_cache" /\ c_op.clean) =>
          \A i \in 1..3 : FilesNow[i] = c_op.files[i]

\* the entry is held under its key by one of the files save_cache writes
Durable(key, entry) == \E i \in 1..3 : FilesNow[i].exists /\ <<key, entry>> \in FilesNow[i].doc
\* the cache a reader keeps its entries in
CacheOf(op) == IF op = "get_hbd_price_usd" THEN cu_price_cache ELSE l1_cache
\* a reader that fetched and got a value has put it
HasPut == c_op.op \in Readers /\ c_op.remote /\ c_op.ret \notin {0, HbdDefault}

\* C21: a put of price_cache["HBD"], of the account info or of the global
\* properties leaves the key holding the new value with timestamp = now, and
\* the written entry is in the files: when the reader that made the put
\* returns, its save_cache done, and when clear_caches, the last step of a
\* run, has written the files while the entry is still within its window.
C21_Original ==
    /\ HasPut =>
         /\ c_op.key \in DOMAIN CacheOf(c_op.op)
         /\ CacheOf(c_op.op)[c_op.key] = Entry(c_op.ret, c_op.at)
         /\ Durable(c_op.key, Entry(c_op.ret, c_op.at))
    /\ c_op.op = "clear_caches" =>
         \A cache \in {cu_price_cache, l1_cache} : \A k \in DOMAIN cache :
            (HasTimestamp(cache[k]) /\ Age(cache[k], c_op.at) <= 900) =>
               Durable(k, cache[k])

\* the same for price_cache["HBD"] alone
C21_PriceCachePut ==
    /\ (HasPut /\ c_op.op = "get_hbd_price_usd") =>
         /\ "HBD" \in DOMAIN cu_price_cache
         /\ cu_price_cache["HBD"] = Entry(c_op.ret, c_op.at)
         /\ Durable("HBD", Entry(c_op.ret, c_op.at))
    /\ c_op.op = "clear_caches" =>
         \A k \in DOMAIN cu_price_cache :
            (HasTimestamp(cu_price_cache[k]) /\ Age(cu_price_cache[k], c_op.at) <= 900) =>
               Durable(k, cu_price_cache[k])

\* ------------------------------------------------------------------
\* hive_engine_utils.py get_token_holdings and diesel_pools.py
\* get_diesel_pool_holdings.  fetch_from_hive_engine is taken by its result:
\* the records the provider gave, or the empty list.
\* ------------------------------------------------------------------
\* a quantity field as it arrives: the text of a number, or other text
Qty(n) == [numeric |-> TRUE, val |-> n]
Text(text) == [numeric |-> FALSE, val |-> 0, text |-> text]
NaQ == Text("abc")

\* str.lower() and the substring test `marker in text`
Capitals == "ABCDEFGHIJKLMNOPQRSTUVWXYZ"
Smalls == "abcdefghijklmnopqrstuvwxyz"
CharAt(text, i) == SubSeq(text, i, i)
LowerOf(c) ==
    IF \E i \in 1..Len(Capitals) : CharAt(Capitals, i) = c
    THEN CharAt(Smalls, CHOOSE i \in 1..Len(Capitals) : CharAt(Capitals, i) = c)
    ELSE c
UpperOf(c) ==
    IF \E i \in 1..Len(Smalls) : CharAt(Smalls, i) = c
    THEN CharAt(Capitals, CHOOSE i \in 1..Len(Smalls) : CharAt(Smalls, i) = c)
    ELSE c
\* set(text)
CharsOf(text) == { CharAt(text, i) : i \in 1..Len(text) }
RECURSIVE LowerText(_)
LowerText(text) ==
    IF text = "" THEN ""
    ELSE LowerOf(CharAt(text, 1)) \o LowerText(SubSeq(text, 2, Len(text)))
InText(marker, text) ==
    \E i \in 1..(Len(text) - Len(marker) + 1) :
        SubSeq(text, i, i + Len(marker) - 1) = marker

HoldingSymbols == {"X", "Y"}

\* records of the tokens/balances table; `fields` names the optional keys
\* the record has
Balance(symbol, balance, fields, stake, delegations) ==
    [symbol |-> symbol, balance |-> balance, fields |-> fields,
     stake |-> IF "stake" \in fields THEN stake ELSE Qty(0),
     delegations |-> IF "delegations" \in fields THEN delegations ELSE Qty(0)]
BalanceRecords ==
    { Balance(symbol, balance, fields, stake, Qty(10)) :
        symbol \in HoldingSymbols, balance \in {Qty(100), NaQ},
        fields \in SUBSET {"stake", "delegations"}, stake \in {Qty(50), NaQ} }
\* records of the tokens/delegations table
DelegationRecords == [symbol : HoldingSymbols, quantity : {Qty(7), NaQ}]

\* the table holds one balances record for an account and a symbol
BalanceFeeds ==
    {<<>>} \cup { <<b>> : b \in BalanceRecords }
           \cup { <<b1, b2>> : b1 \in { b \in BalanceRecords : b.symbol = "X" },
                               b2 \in { b \in BalanceRecords : b.symbol = "Y" } }
DelegationFeeds ==
    {<<>>} \cup { <<d>> : d \in DelegationRecords }
           \cup { <<d1, d2>> : d1 \in DelegationRecords, d2 \in DelegationRecords }

\* b.get(field, 0)
GetField(b, field) == IF field \in b.fields THEN b[field] ELSE Qty(0)

Raised_ValueError == [kind |-> "ValueError", val |-> <<>>]
\* line 253: the entry the defaultdict makes for a new key
NoHolding == [liquid |-> 0, staked |-> 0, delegated_away |-> 0]
\* variant: the entry is made anew at every use
HoldingOfFresh(res, s) == NoHolding
\* lines 253, 267: res[s], made by the defaultdict when s is new
HoldingOf(res, s) == IF s \in DOMAIN res THEN res[s] ELSE NoHolding

\* lines 255-261: the loop over the balances records, from record i on;
\* float() of a text that is no number raises ValueError
RECURSIVE MergeBalances(_, _, _, _)
MergeBalances(liquid, i, tokens, res) ==
    IF i > Len(liquid) THEN [kind |-> "ok", val |-> res]
    ELSE LET b == liquid[i]
             s == b.symbol
         IN IF s \notin tokens THEN MergeBalances(liquid, i + 1, tokens, res)
            ELSE IF ~b.balance.numeric
                    \/ ~GetField(b, "stake").numeric
                    \/ ~GetField(b, "delegations").numeric
              THEN Raised_ValueError
              ELSE MergeBalances(liquid, i + 1, tokens,
                     Put(res, s, [liquid |-> b.balance.val,
                                  staked |-> GetField(b, "stake").val,
                                  delegated_away |-> GetField(b, "delegations").val]))

\* lines 263-267: the loop over the delegations records
RECURSIVE MergeDelegations(_, _, _, _)
MergeDelegations(delegated, i, tokens, res) ==
    IF i > Len(delegated) THEN [kind |-> "ok", val |-> res]
    ELSE LET d == delegated[i]
             s == d.symbol
         IN IF s \notin tokens THEN MergeDelegations(delegated, i + 1, tokens, res)
            ELSE IF ~d.quantity.numeric THEN Raised_ValueError
              ELSE MergeDelegations(delegated, i + 1, tokens,
                     Put(res, s, [HoldingOf(res, s) EXCEPT
                                    !.delegated_away = @ + d.quantity.val]))

\* lines 237-269 get_token_holdings, given what the two fetches returned
get_token_holdings(liquid, delegated, tokens) ==
    LET balances == MergeBalances(liquid, 1, tokens, <<>>)
    IN IF balances.kind # "ok" THEN balances
       ELSE MergeDelegations(delegated, 1, tokens, balances.val)

\* ---- get_diesel_pool_holdings ----
\* records of the marketpools/liquidityPositions table; the pair string is
\* kept as the list split(":") makes of it, the empty string as <<"">>
Position(id, token_pair, shares) == [id |-> id, tokenPair |-> token_pair, shares |-> shares]
EmptyString == <<"">>
PositionAB == Position(1, PairAB, Qty(20))
PositionCD == Position(2, PairCD, Qty(5))
PositionZero == Position(3, PairCD, Qty(0))
PositionMalformed == Position(4, PairMalformed, Qty(20))
PositionThree == Position(5, <<"A", "B", "C">>, Qty(20))
PositionNoPair == Position(6, EmptyString, Qty(20))
PositionNaQ == Position(7, PairCD, NaQ)
\* shares whose text holds one of the markers of lines 188-191
PositionTimeout == Position(8, PairCD, Text("timeout"))
Position503 == Position(9, PairCD, Text("503x"))
PositionConnection == Position(10, PairCD, Text("connection"))
PositionUnavailable == Position(11, PairCD, Text("Service Temporarily Unavailable"))
PositionFeeds ==
    { <<>>, <<PositionAB>>, <<PositionZero, PositionAB>>, <<PositionMalformed, PositionAB>>,
      <<PositionThree, PositionNoPair>>, <<PositionAB, PositionCD>>,
      <<PositionNaQ, PositionAB>>, <<PositionAB, PositionNaQ>>,
      <<PositionTimeout, PositionAB>>, <<Position503, PositionAB>>,
      <<PositionConnection, PositionAB>>, <<PositionUnavailable, PositionAB>> }
\* what the fetches after the first return
LaterFeeds ==
    { <<>>, <<PositionAB>>, <<PositionNaQ, PositionAB>>, <<PositionTimeout, PositionAB>> }

\* the message of the ValueError float() raises on a text that is no number
FloatError(text) == "could not convert string to float: '" \o text \o "'"

\* lines 158-178: the loop over the positions, from record i on
RECURSIVE ParsePositions(_, _, _)
ParsePositions(positions, i, pool_holdings) ==
    IF i > Len(positions) THEN [kind |-> "ok", val |-> pool_holdings]
    ELSE LET position == positions[i]
             token_pair == position.tokenPair
         IN IF ~position.shares.numeric
              THEN [kind |-> "ValueError", val |-> <<>>,
                    msg |-> FloatError(position.shares.text)]
            ELSE IF position.shares.val > 0 /\ token_pair # EmptyString /\ Len(token_pair) = 2
              THEN ParsePositions(positions, i + 1,
                     Put(pool_holdings, token_pair,
                         [pool_id |-> position.id, shares |-> position.shares.val,
                          token_pair |-> token_pair, base_token |-> token_pair[1],
                          quote_token |-> token_pair[2]]))
              ELSE ParsePositions(positions, i + 1, pool_holdings)

\* line 195: an error that is not transient ends the attempts from this one on
PoolHoldingsLastTry == 2
\* line 143: the pause before attempt `attempt`
HoldingsBackoff(delay, attempt) == delay * attempt

\* lines 184, 188-191: the errors that are tried again at every attempt
TransientPoolError(e) ==
    LET error_msg == LowerText(e)
    IN \/ InText("service temporarily unavailable", error_msg)
       \/ InText("503", error_msg)
       \/ InText("timeout", error_msg)
       \/ InText("connection", error_msg)

\* lines 140-203: the attempts from `attempt` on; feeds[k] is what the fetch
\* of the k-th attempt returned.  An error whose message holds one of the
\* markers of lines 188-191 goes on to the next attempt (`continue`), and
\* the loop running out returns {} at line 203; any other error ends the
\* attempts from the third one on (`break`).
RECURSIVE HoldingsAttempts(_, _, _, _, _, _)
HoldingsAttempts(feeds, attempt, retries, delay, jitter, sleeps) ==
    IF attempt >= retries
      THEN [kind |-> "ok", ret |-> <<>>, fetches |-> attempt, sleeps |-> sleeps]
      ELSE LET slept == IF attempt > 0
                          THEN Append(sleeps, [dur |-> HoldingsBackoff(delay, attempt),
                                               jitter |-> jitter])
                          ELSE sleeps
               positions == feeds[attempt + 1]
               parsed == ParsePositions(positions, 1, <<>>)
               done(ret) == [kind |-> "ok", ret |-> ret, fetches |-> attempt + 1,
                             sleeps |-> slept]
           IN IF positions = <<>> THEN done(<<>>)
              ELSE IF parsed.kind = "ok" THEN done(parsed.val)
              ELSE IF TransientPoolError(parsed.msg)
                THEN HoldingsAttempts(feeds, attempt + 1, retries, delay, jitter, slept)
              ELSE IF attempt >= PoolHoldingsLastTry THEN done(<<>>)
              ELSE IF attempt = retries - 1 THEN done(<<>>)
              ELSE HoldingsAttempts(feeds, attempt + 1, retries, delay, jitter, slept)

get_diesel_pool_holdings(feeds, retries, delay, jitter) ==
    HoldingsAttempts(feeds, 0, retries, delay, jitter, <<>>)

\* ---- the calls ----
\* the calls that can be made: arguments and what the fetches return
TokenHoldingsCalls ==
    { [NoCall EXCEPT !.op = "get_token_holdings", !.tokens = tokens,
                     !.liquid = liquid, !.delegated = delegated, !.kind = "pending"] :
        liquid \in BalanceFeeds, delegated \in DelegationFeeds,
        tokens \in SUBSET HoldingSymbols }
PoolHoldingsCalls ==
    UNION { { [NoCall EXCEPT !.op = "get_diesel_pool_holdings", !.feeds = feeds,
                             !.retries = retries, !.delay = delay, !.jitter = jitter,
                             !.kind = "pending"] :
                feeds \in { [k \in 1..retries |-> IF k = 1 THEN first ELSE rest[k]] :
                              first \in PositionFeeds,
                              rest \in [2..retries -> LaterFeeds] },
                delay \in PoolDelays, jitter \in PoolJitters } :
            retries \in PoolRetryBudgets }

GetTokenHoldings ==
    /\ h_call.op = "get_token_holdings"
    /\ h_call.kind = "pending"
    /\ LET res == get_token_holdings(h_call.liquid, h_call.delegated, h_call.tokens)
       IN h_call' = [h_call EXCEPT !.kind = res.kind, !.ret = res.val, !.fetches = 2]
    /\ UNCHANGED <<fvars, log, mvars, pvars, cvars, svars, xvars>>

GetDieselPoolHoldings ==
    /\ h_call.op = "get_diesel_pool_holdings"
    /\ h_call.kind = "pending"
    /\ LET res == get_diesel_pool_holdings(h_call.feeds, h_call.retries, h_call.delay,
                                           h_call.jitter)
       IN h_call' = [h_call EXCEPT !.kind = res.kind, !.ret = res.ret,
                                   !.fetches = res.fetches, !.sleeps = res.sleeps]
    /\ UNCHANGED <<fvars, log, mvars, pvars, cvars, svars, xvars>>

InitHoldings ==
    /\ f_pc = "idle"
    /\ f_retries = DefaultFetchRetries
    /\ f_delay = DefaultFetchDelay
    /\ f_table = ""
    /\ f_attempt = 0
    /\ f_result = NoResult
    /\ log = <<>>
    /\ MarketIdle
    /\ PoolIdle
    /\ CacheIdle
    /\ MainIdle
    /\ ExtraIdle
    /\ h_call \in TokenHoldingsCalls \cup PoolHoldingsCalls

NextHoldings ==
    \/ GetTokenHoldings
    \/ GetDieselPoolHoldings

SpecHoldings == InitHoldings /\ [][NextHoldings]_vars

\* ---- what the holdings claims speak of ----
Returned(op) == h_call.op = op /\ h_call.kind = "ok"
\* the places of the records of symbol s in a feed
RecordsOf(feed, s) == { i \in 1..Len(feed) : feed[i].symbol = s }
RECURSIVE SumOfQuantities(_, _)
SumOfQuantities(feed, idx) ==
    IF idx = {} THEN 0
    ELSE LET i == CHOOSE j \in idx : TRUE
         IN feed[i].quantity.val + SumOfQuantities(feed, idx \ {i})
\* the optional quantity of a balances record, 0 when the record lacks it
FieldOr0(b, field) == IF field \in b.fields THEN b[field].val ELSE 0

\* C23 as stated: the keys of the returned map are requested symbols, and
\* each returned symbol has a balances record that gives its liquid and
\* staked, while delegated_away is that record's delegations (0 if absent)
\* plus the sum of quantity over the delegations-out records of the symbol.
C23_Original ==
    Returned("get_token_holdings") =>
        /\ DOMAIN h_call.ret \subseteq h_call.tokens
        /\ \A s \in DOMAIN h_call.ret :
             \E i \in RecordsOf(h_call.liquid, s) :
                LET b == h_call.liquid[i]
                IN /\ h_call.ret[s].liquid = b.balance.val
                   /\ h_call.ret[s].staked = FieldOr0(b, "stake")
                   /\ h_call.ret[s].delegated_away =
                        FieldOr0(b, "delegations")
                          + SumOfQuantities(h_call.delegated, RecordsOf(h_call.delegated, s))

\* C23: the keys of the map get_token_holdings returns are requested
\* symbols that have a balances or a delegations-out record; liquid and
\* staked are those of the symbol's balances record and 0 when it has none;
\* delegated_away is that record's delegations (0 if the field or the
\* record is absent) plus the sum of quantity over its delegations-out records.
C23_TokenHoldings ==
    Returned("get_token_holdings") =>
        /\ DOMAIN h_call.ret \subseteq h_call.tokens
        /\ \A s \in h_call.tokens :
             LET mine == RecordsOf(h_call.liquid, s)
                 out == RecordsOf(h_call.delegated, s)
                 sum == SumOfQuantities(h_call.delegated, out)
             IN /\ s \in DOMAIN h_call.ret <=> (mine # {} \/ out # {})
                /\ s \in DOMAIN h_call.ret =>
                     IF mine = {}
                       THEN h_call.ret[s] = [liquid |-> 0, staked |-> 0,
                                             delegated_away |-> sum]
                       ELSE \A i \in mine :
                              LET b == h_call.liquid[i]
                              IN h_call.ret[s] =
                                   [liquid |-> b.balance.val,
                                    staked |-> FieldOr0(b, "stake"),
                                    delegated_away |-> FieldOr0(b, "delegations") + sum]

\* X is requested and Y is not; X has a balances record with a delegations
\* field and two delegations-out records, Y has records of both tables
C23_Witness ==
    /\ Returned("get_token_holdings")
    /\ h_call.tokens = {"X"}
    /\ RecordsOf(h_call.liquid, "Y") # {}
    /\ RecordsOf(h_call.delegated, "Y") # {}
    /\ Len(h_call.liquid) = 2
    /\ "delegations" \in h_call.liquid[1].fields
    /\ "stake" \in h_call.liquid[1].fields
    /\ DOMAIN h_call.ret = {"X"}
    /\ h_call.ret["X"] = [liquid |-> 100, staked |-> 50, delegated_away |-> 17]

\* a requested symbol with a delegations-out record and no balances record
C23_WitnessNoBalance ==
    /\ Returned("get_token_holdings")
    /\ h_call.liquid = <<>>
    /\ "Y" \in DOMAIN h_call.ret
    /\ h_call.ret["Y"] = [liquid |-> 0, staked |-> 0, delegated_away |-> 14]

\* the feed the last fetch of a get_diesel_pool_holdings call returned
LastFeed == IF h_call.fetches >= 1 THEN h_call.feeds[h_call.fetches] ELSE <<>>
\* the places of the position records with shares > 0 and a pair of two tokens
ValidPositions(feed) ==
    { i \in 1..Len(feed) :
        feed[i].shares.numeric /\ feed[i].shares.val > 0 /\ Len(feed[i].tokenPair) = 2 }
AllNumeric(feed) == \A i \in 1..Len(feed) : feed[i].shares.numeric
\* the result holds exactly the valid position records of the feed
ExactlyValid(feed, ret) ==
    /\ DOMAIN ret = { feed[i].tokenPair : i \in ValidPositions(feed) }
    /\ \A i \in ValidPositions(feed) :
         LET pair == feed[i].tokenPair
         IN ret[pair] = [pool_id |-> feed[i].id, shares |-> feed[i].shares.val,
                         token_pair |-> pair, base_token |-> pair[1],
                         quote_token |-> pair[2]]

\* C24: get_diesel_pool_holdings returns exactly the position records of the
\* feed whose shares > 0 and whose pair splits into exactly two tokens; a
\* zero-share record or a malformed pair never appears and keeps no later
\* valid record of the feed from appearing.
C24_Original ==
    (h_call.op = "get_diesel_pool_holdings" /\ h_call.kind # "pending") =>
        /\ h_call.kind = "ok"
        /\ ExactlyValid(LastFeed, h_call.ret)

\* the same for the feeds whose shares are all numbers
C24_NumericFeeds ==
    (h_call.op = "get_diesel_pool_holdings" /\ h_call.kind # "pending"
       /\ AllNumeric(LastFeed)) =>
        /\ h_call.kind = "ok"
        /\ ExactlyValid(LastFeed, h_call.ret)

\* a balances or delegations record of a requested symbol whose quantities
\* are all numbers
WellFormedBalance(b) ==
    b.balance.numeric /\ GetField(b, "stake").numeric /\ GetField(b, "delegations").numeric

\* C25: a record with a non-numeric quantity field is skipped alone: the
\* operation does not raise, and every other well-formed record of the feed
\* still appears in the result.
C25_Original ==
    /\ (h_call.op = "get_token_holdings" /\ h_call.kind # "pending") =>
         /\ h_call.kind = "ok"
         /\ \A i \in 1..Len(h_call.liquid) :
              LET b == h_call.liquid[i]
              IN (b.symbol \in h_call.tokens /\ WellFormedBalance(b)) =>
                    /\ b.symbol \in DOMAIN h_call.ret
                    /\ h_call.ret[b.symbol].liquid = b.balance.val
    /\ (h_call.op = "get_diesel_pool_holdings" /\ h_call.kind # "pending") =>
         /\ h_call.kind = "ok"
         /\ \A i \in ValidPositions(LastFeed) :
              LastFeed[i].tokenPair \in DOMAIN h_call.ret

\* the two halves of C25 apart: get_token_holdings, get_diesel_pool_holdings
C25_TokenHoldingsHalf ==
    (h_call.op = "get_token_holdings" /\ h_call.kind # "pending") => h_call.kind = "ok"
C25_PoolHoldingsHalf ==
    (h_call.op = "get_diesel_pool_holdings" /\ h_call.kind # "pending") =>
         \A i \in ValidPositions(LastFeed) : LastFeed[i].tokenPair \in DOMAIN h_call.ret

\* ---- the values of a held position ----
\* get_user_pool_portfolio has just valued the position p_pair
JustValued == p_pc = "loop" /\ p_caller = "portfolio" /\ p_ret # <<>>
\* the provider's record of the pool a returned pool_info was made from
RegisteredAs(info) == CHOOSE pool \in { registry[j] : j \in 1..Len(registry) } :
                         pool.id = info.pool_id
\* the price of a token in token_prices, 0 when it has none
HivePrice(token) == IF token \in DOMAIN TokenPrices THEN TokenPrices[token] ELSE 0

\* C29: calculate_pool_token_values gives base_amount = base_quantity * ratio,
\* quote_amount = quote_quantity * ratio with ratio = user_shares /
\* total_shares, and total value = base_amount * price(base) + quote_amount *
\* price(quote), base and quote being the symbols the pool is registered with.
C29_PoolTokenValues ==
    JustValued =>
        LET pool == RegisteredAs(p_ret[1])
            user_shares == p_holdings[p_pair]
        IN /\ p_values.kind = "values"
           /\ p_values.base_amount * pool.totalShares = pool.baseQuantity * user_shares
           /\ p_values.quote_amount * pool.totalShares = pool.quoteQuantity * user_shares
           /\ p_values.share_percentage * pool.totalShares = 100 * user_shares
           /\ p_values.total_value_hive =
                p_values.base_amount * HivePrice(pool.baseSymbol)
                  + p_values.quote_amount * HivePrice(pool.quoteSymbol)

\* reserves 1000/500, total shares 200, 20 shares held, prices 1.0 and 2.0:
\* amounts 100 and 50, value 200; the position is held as B:A, the pool is
\* registered as A:B
C29_Witness ==
    /\ JustValued
    /\ registry = <<PoolAB>>
    /\ p_pair = PairBA
    /\ p_holdings[p_pair] = 20
    /\ p_values.base_amount = 100
    /\ p_values.quote_amount = 50
    /\ p_values.total_value_hive = 200 * Unit

\* the pools of the registry that answer to a pair, in either order, and
\* have shares
PoolsOf(pair) ==
    { pool \in { registry[j] : j \in 1..Len(registry) } :
        /\ pool.tokenPair \in {pair, <<pair[2], pair[1]>>}
        /\ pool.hasTotalShares /\ pool.totalShares > 0 }
\* the value in HIVE of `shares` shares of a pool
WorthOf(pool, shares) ==
    ((pool.baseQuantity * shares) \div pool.totalShares) * HivePrice(pool.baseSymbol)
      + ((pool.quoteQuantity * shares) \div pool.totalShares) * HivePrice(pool.quoteSymbol)
Listed == { pool_data[k].token_pair : k \in 1..Len(pool_data) }

\* C30: every entry of the list get_user_pool_portfolio builds is a held
\* position whose pool was resolved and whose total_hive > 0; a position
\* whose value is exactly 0, as when its tokens have no price, or whose
\* pool is not resolved is not in the list.
C30_ListedPositions ==
    /\ \A k \in 1..Len(pool_data) :
         LET e == pool_data[k]
         IN /\ e.token_pair \in DOMAIN p_holdings
            /\ e.total_hive > 0
            /\ \E pool \in PoolsOf(e.token_pair) :
                 e.total_hive = WorthOf(pool, p_holdings[e.token_pair])
            /\ \A j \in 1..Len(pool_data) : pool_data[j].token_pair = e.token_pair => j = k
    /\ \A pair \in DOMAIN p_holdings :
         (\A pool \in PoolsOf(pair) : WorthOf(pool, p_holdings[pair]) = 0) =>
             pair \notin Listed
    /\ (JustValued /\ p_values.total_value_hive = 0) => p_pair \notin Listed
    /\ (p_pc = "loop" /\ p_caller = "portfolio" /\ p_pair # <<>> /\ p_ret = <<>>) =>
          p_pair \notin Listed

\* both positions are held and both pools resolved; C and D have no price,
\* so C:D is worth 0 and only B:A is returned
C30_Witness ==
    /\ p_pc = "idle"
    /\ registry = <<PoolCD, PoolBA>>
    /\ DOMAIN p_holdings = {PairBA, PairCD}
    /\ p_last[PairBA].called
    /\ Listed = {PairBA}
    /\ pool_data[1].total_hive = 250 * Unit

\* =====================================================================
\* take-snapshot.py: main, from parse_arguments to the final clear_caches.
\* Every Hive-Engine lookup is taken by its result; money amounts are exact
\* fractions <<numerator, denominator>> with a positive denominator.
\* =====================================================================

\* ---- fractions ----
RECURSIVE Gcd(_, _)
Gcd(a, b) == IF b = 0 THEN a ELSE Gcd(b, a % b)

\* what a division by zero leaves behind: Python raises ZeroDivisionError
ZeroDivision == <<0, 0>>
IsZeroDivision(q) == q[2] = 0

QNorm(n, d) == IF n = 0 THEN <<0, 1>> ELSE <<n \div Gcd(n, d), d \div Gcd(n, d)>>
Q(n) == <<n, 1>>
QMul(a, b) ==
    IF IsZeroDivision(a) \/ IsZeroDivision(b) THEN ZeroDivision
    ELSE QNorm(a[1] * b[1], a[2] * b[2])
QAdd(a, b) ==
    IF IsZeroDivision(a) \/ IsZeroDivision(b) THEN ZeroDivision
    ELSE QNorm(a[1] * b[2] + b[1] * a[2], a[2] * b[2])
\* a / b
QDiv(a, b) ==
    IF IsZeroDivision(a) \/ IsZeroDivision(b) \/ b[1] = 0 THEN ZeroDivision
    ELSE QNorm(a[1] * b[2], a[2] * b[1])
\* a > 0
QPos(a) == a[1] > 0 /\ a[2] > 0

\* sum(line[field] for line in lines)
RECURSIVE SumOf(_, _)
SumOf(lines, field) ==
    IF lines = <<>> THEN Q(0) ELSE QAdd(Head(lines)[field], SumOf(Tail(lines), field))

\* ---- characters of an account name ----
\* '-.' of lines 36, 46
DashDot == CharsOf("-.")
\* line 40
allowed_chars == CharsOf("abcdefghijklmnopqrstuvwxyz0123456789-.")
\* str.lower() on a string, str.isalpha() on one character of it
Lower(username) == [i \in DOMAIN username |-> LowerOf(username[i])]
IsAlpha(c) == c \in CharsOf(Smalls) \cup CharsOf(Capitals)

MinUsernameLen == 3
MaxUsernameLen == 16

\* misc_utils.py lines 11-49
validate_username(username) ==
    IF username = <<>> THEN [ok |-> FALSE, msg |-> "Username cannot be empty"]
    ELSE IF Len(username) < MinUsernameLen \/ Len(username) > MaxUsernameLen
    THEN [ok |-> FALSE, msg |-> "Username must be between 3 and 16 characters"]
    ELSE IF username # Lower(username)
    THEN [ok |-> FALSE, msg |-> "Username must be lowercase"]
    ELSE IF ~IsAlpha(username[1])
    THEN [ok |-> FALSE, msg |-> "Username must start with a letter"]
    ELSE IF username[Len(username)] \in DashDot
    THEN [ok |-> FALSE, msg |-> "Username cannot end with dash or dot"]
    ELSE IF \E i \in DOMAIN username : username[i] \notin allowed_chars
    THEN [ok |-> FALSE,
          msg |-> "Username can only contain letters, numbers, dashes, and dots"]
    ELSE IF \E i \in 1..(Len(username) - 1) :
               username[i] \in DashDot /\ username[i + 1] \in DashDot
    THEN [ok |-> FALSE, msg |-> "Username cannot have consecutive dashes or dots"]
    ELSE [ok |-> TRUE, msg |-> "Valid username"]

\* misc_utils.py lines 51-68; the empty string is ""
validate_token(token, valid_symbols) ==
    IF token = "" THEN [ok |-> FALSE, msg |-> "Token cannot be empty"]
    ELSE IF token \notin valid_symbols
    THEN [ok |-> FALSE, msg |-> "Token is not found in Hive Engine token list"]
    ELSE [ok |-> TRUE, msg |-> "Valid token"]

\* ---- paths ----
\* a path is the number of slashes it starts with and its components; the
\* empty string is the relative path without components
Slashes(lead, parts) == [abs |-> lead > 0, lead |-> lead, parts |-> parts]
Path(abs, parts) == Slashes(IF abs THEN 1 ELSE 0, parts)
EmptyPath == Path(FALSE, <<>>)

\* os.path.normpath: drops empty and "." components, lets ".." swallow the
\* component before it, keeps a leading ".." of a relative path, drops it at
\* the root
RECURSIVE NormParts(_, _, _)
NormParts(abs, parts, done) ==
    IF parts = <<>> THEN done
    ELSE LET c == Head(parts)
         IN IF c = "." \/ c = "" THEN NormParts(abs, Tail(parts), done)
            ELSE IF c = ".."
            THEN IF done # <<>> /\ done[Len(done)] # ".."
                 THEN NormParts(abs, Tail(parts), SubSeq(done, 1, Len(done) - 1))
                 ELSE IF abs THEN NormParts(abs, Tail(parts), done)
                 ELSE NormParts(abs, Tail(parts), Append(done, c))
            ELSE NormParts(abs, Tail(parts), Append(done, c))
\* exactly two leading slashes are kept, three or more become one
normpath(path) ==
    Slashes(IF path.lead > 2 THEN 1 ELSE path.lead,
            NormParts(path.abs, path.parts, <<>>))

\* misc_utils.py line 152
dangerous_patterns == {"..", "~", "$"}
\* the file system of the run: the working directory holds a regular file
\* `file` and a directory `ro` whose .write_test cannot be opened for
\* writing; every other directory exists or can be created, and takes the
\* probe file
NotDirectories == {"file"}
ReadOnlyDirs == {"ro"}
\* os.makedirs(path, exist_ok=True) raises OSError
MakedirsFails(path) ==
    ~path.abs /\ path.parts # <<>> /\ path.parts[1] \in NotDirectories
\* open(os.path.join(path, '.write_test'), 'w') raises OSError
ProbeFails(path) ==
    ~path.abs /\ Len(path.parts) = 1 /\ path.parts[1] \in ReadOnlyDirs

\* misc_utils.py lines 129-172; the pattern test of line 153 is a substring
\* test on the normalized path, whose components are joined by '/'
validate_snapshots_dir(snapshots_dir) ==
    LET normalized_path == normpath(snapshots_dir)
    IN IF snapshots_dir = EmptyPath
       THEN [ok |-> FALSE, msg |-> "Snapshots directory cannot be empty",
             path |-> EmptyPath]
       ELSE IF normalized_path.abs /\ normalized_path.lead = 1
               /\ normalized_path.parts = <<>>
       THEN [ok |-> FALSE, msg |-> "Cannot use root directory as snapshots directory",
             path |-> EmptyPath]
       ELSE IF \E pattern \in dangerous_patterns :
                  \E i \in DOMAIN normalized_path.parts :
                     InText(pattern, normalized_path.parts[i])
       THEN [ok |-> FALSE, msg |-> "Path contains potentially unsafe characters",
             path |-> EmptyPath]
       ELSE IF MakedirsFails(normalized_path)
       THEN [ok |-> FALSE, msg |-> "Cannot create directory", path |-> EmptyPath]
       ELSE IF ProbeFails(normalized_path)
       THEN [ok |-> FALSE, msg |-> "Directory is not writable", path |-> EmptyPath]
       ELSE [ok |-> TRUE, msg |-> "Valid snapshots directory",
             path |-> normalized_path]

\* ---- the token list of the provider ----
\* `limit` of fetch_all_tokens (1000), scaled down
TokenBatchLimit == 2
\* records of the tokens/tokens table; the last one has no "symbol" key
TokenRecord(symbol, fields) == [symbol |-> symbol, fields |-> fields]
TokenTable ==
    <<TokenRecord("X", {"symbol"}), TokenRecord("Y", {"symbol"}),
      TokenRecord("", {})>>

\* one fetch_from_hive_engine(api, "tokens", "tokens", {}, limit, offset): the
\* page at `offset`, or the empty list when every attempt failed
TokenBatch(provider, limit, off) ==
    IF provider = "down" THEN <<>>
    ELSE SubSeq(TokenTable, off + 1, Min2(off + limit, Len(TokenTable)))

\* hive_engine_utils.py lines 281-290; `calls` counts the fetches
RECURSIVE FetchAllTokensLoop(_, _, _, _)
FetchAllTokensLoop(provider, tokens, off, calls) ==
    LET batch == TokenBatch(provider, TokenBatchLimit, off)
    IN IF batch = <<>>
       THEN [symbols |-> { tokens[i].symbol :
                             i \in { j \in DOMAIN tokens : "symbol" \in tokens[j].fields } },
             calls |-> calls + 1]
       ELSE FetchAllTokensLoop(provider, tokens \o batch, off + Len(batch), calls + 1)
fetch_all_tokens(provider) == FetchAllTokensLoop(provider, <<>>, 0, 0)

\* ---- one token line ----
\* holdings.get(sym, {"liquid": 0.0, "staked": 0.0, "delegated_away": 0.0})
HoldingsGet(holdings, sym) ==
    IF sym \in DOMAIN holdings THEN holdings[sym]
    ELSE [liquid |-> 0, staked |-> 0, delegated_away |-> 0]

\* the same line without the delegated quantity
TokenLineNoDelegated(sym, d, price_hive, vol24_hive, hive_usd, btc_usd) ==
    LET total_amount == Q(d.liquid + d.staked)
        price_usd == QMul(price_hive, hive_usd)
        vol24_usd == QMul(vol24_hive, hive_usd)
        total_usd == QMul(total_amount, price_usd)
        total_hive == QMul(total_amount, price_hive)
        total_btc == IF QPos(btc_usd) THEN QDiv(total_usd, btc_usd) ELSE Q(0)
    IN [symbol |-> sym, liquid |-> d.liquid, staked |-> d.staked,
        delegated |-> d.delegated_away, price_hive |-> price_hive,
        price_usd |-> price_usd, volume_24h_usd |-> vol24_usd,
        total_usd |-> total_usd, total_hive |-> total_hive, total_btc |-> total_btc]
\* take-snapshot.py lines 497-515
TokenLine(sym, d, price_hive, vol24_hive, hive_usd, btc_usd) ==
    LET total_amount == Q(d.liquid + d.staked + d.delegated_away)
        price_usd == QMul(price_hive, hive_usd)
        vol24_usd == QMul(vol24_hive, hive_usd)
        total_usd == QMul(total_amount, price_usd)
        total_hive == QMul(total_amount, price_hive)
        total_btc == IF QPos(btc_usd) THEN QDiv(total_usd, btc_usd) ELSE Q(0)
    IN [symbol |-> sym, liquid |-> d.liquid, staked |-> d.staked,
        delegated |-> d.delegated_away, price_hive |-> price_hive,
        price_usd |-> price_usd, volume_24h_usd |-> vol24_usd,
        total_usd |-> total_usd, total_hive |-> total_hive, total_btc |-> total_btc]

\* ---- one pool line ----
\* take-snapshot.py lines 528-530, for one element of pool_data
PoolLine(pool, hive_usd, btc_usd) ==
    LET total_usd == QMul(pool.total_hive, hive_usd)
    IN [token_pair |-> pool.token_pair, user_shares |-> pool.user_shares,
        total_hive |-> pool.total_hive, total_usd |-> total_usd,
        total_btc |-> IF QPos(btc_usd) THEN QDiv(total_usd, btc_usd) ELSE Q(0)]

\* ---- layer 1 ----
\* layer1_holdings.py lines 279-308
calculate_layer1_values(holdings, hive_usd, hbd_usd, btc_usd) ==
    LET total_hive == Q(holdings.liquid_hive + holdings.savings_hive
                          + holdings.hive_power_owned)
        total_hive_usd == QMul(total_hive, hive_usd)
        total_hbd == Q(holdings.liquid_hbd + holdings.savings_hbd)
        total_hbd_usd == QMul(total_hbd, hbd_usd)
        total_combined_usd == QAdd(total_hive_usd, total_hbd_usd)
    IN [total_hive_amount |-> total_hive,
        total_hive_usd |-> total_hive_usd,
        total_hive_btc |-> IF QPos(btc_usd) THEN QDiv(total_hive_usd, btc_usd) ELSE Q(0),
        total_hbd_amount |-> total_hbd,
        total_hbd_usd |-> total_hbd_usd,
        total_hbd_btc |-> IF QPos(btc_usd) THEN QDiv(total_hbd_usd, btc_usd) ELSE Q(0),
        total_combined_usd |-> total_combined_usd,
        total_combined_hive |->
            IF QPos(hive_usd) THEN QDiv(total_combined_usd, hive_usd) ELSE Q(0),
        total_combined_btc |->
            IF QPos(btc_usd) THEN QDiv(total_combined_usd, btc_usd) ELSE Q(0),
        liquid_hive_usd |-> QMul(Q(holdings.liquid_hive), hive_usd),
        savings_hive_usd |-> QMul(Q(holdings.savings_hive), hive_usd),
        hive_power_usd |-> QMul(Q(holdings.hive_power_owned), hive_usd),
        liquid_hbd_usd |-> QMul(Q(holdings.liquid_hbd), hbd_usd),
        savings_hbd_usd |-> QMul(Q(holdings.savings_hbd), hbd_usd)]

\* ---- the summary of a snapshot document ----
\* the same summary with the division of the grand total left unguarded
SummaryUnguarded(tokens, pools, layer1_values, hive_usd, btc_usd) ==
    LET total_tokens_usd == SumOf(tokens, "total_usd")
        total_pools_usd == SumOf(pools, "total_usd")
        total_layer1_usd ==
            IF layer1_values # <<>> THEN layer1_values[1].total_combined_usd ELSE Q(0)
        total_combined_usd == QAdd(QAdd(total_tokens_usd, total_pools_usd), total_layer1_usd)
        total_tokens_hive == SumOf(tokens, "total_hive")
        total_pools_hive == SumOf(pools, "total_hive")
        total_layer1_hive ==
            IF layer1_values # <<>> THEN layer1_values[1].total_combined_hive ELSE Q(0)
        total_combined_hive ==
            QAdd(QAdd(total_tokens_hive, total_pools_hive), total_layer1_hive)
    IN [total_portfolio |->
            [usd |-> total_combined_usd, hive |-> total_combined_hive,
             btc |-> QDiv(total_combined_usd, btc_usd)],
        layer1_total |->
            [usd |-> total_layer1_usd, hive |-> total_layer1_hive,
             btc |-> IF QPos(btc_usd) THEN QDiv(total_layer1_usd, btc_usd) ELSE Q(0)],
        tokens_total |->
            [usd |-> total_tokens_usd, hive |-> total_tokens_hive,
             btc |-> IF QPos(btc_usd) THEN QDiv(total_tokens_usd, btc_usd) ELSE Q(0)],
        pools_total |->
            [usd |-> total_pools_usd, hive |-> total_pools_hive,
             btc |-> IF QPos(btc_usd) THEN QDiv(total_pools_usd, btc_usd) ELSE Q(0)]]
\* take-snapshot.py lines 111-157: "summary" of create_portfolio_json, without
\* its three counts
Summary(tokens, pools, layer1_values, hive_usd, btc_usd) ==
    LET total_tokens_usd == SumOf(tokens, "total_usd")
        total_pools_usd == SumOf(pools, "total_usd")
        total_layer1_usd ==
            IF layer1_values # <<>> THEN layer1_values[1].total_combined_usd ELSE Q(0)
        total_combined_usd == QAdd(QAdd(total_tokens_usd, total_pools_usd), total_layer1_usd)
        total_tokens_hive == SumOf(tokens, "total_hive")
        total_pools_hive == SumOf(pools, "total_hive")
        total_layer1_hive ==
            IF layer1_values # <<>> THEN layer1_values[1].total_combined_hive ELSE Q(0)
        total_combined_hive ==
            QAdd(QAdd(total_tokens_hive, total_pools_hive), total_layer1_hive)
    IN [total_portfolio |->
            [usd |-> total_combined_usd, hive |-> total_combined_hive,
             btc |-> IF QPos(btc_usd) THEN QDiv(total_combined_usd, btc_usd) ELSE Q(0)],
        layer1_total |->
            [usd |-> total_layer1_usd, hive |-> total_layer1_hive,
             btc |-> IF QPos(btc_usd) THEN QDiv(total_layer1_usd, btc_usd) ELSE Q(0)],
        tokens_total |->
            [usd |-> total_tokens_usd, hive |-> total_tokens_hive,
             btc |-> IF QPos(btc_usd) THEN QDiv(total_tokens_usd, btc_usd) ELSE Q(0)],
        pools_total |->
            [usd |-> total_pools_usd, hive |-> total_pools_hive,
             btc |-> IF QPos(btc_usd) THEN QDiv(total_pools_usd, btc_usd) ELSE Q(0)]]

\* int(btc_usd / hive_usd)
QFloor(q) == q[1] \div q[2]
\* take-snapshot.py line 134: "hive_btc_ratio" of the metadata
MetadataRatio(hive_usd, btc_usd) ==
    IF QPos(hive_usd) THEN QFloor(QDiv(btc_usd, hive_usd)) ELSE 0

\* ---- what main is started with ----
\* modules/config.py is not part of the source tree: the three defaults
DEFAULT_ACCOUNT == <<"a", "b", "1">>
DEFAULT_TOKENS == <<"X">>
BASE_SNAPSHOTS_DIR == Path(FALSE, <<"snapshots">>)

UserNames ==
    { <<>>, <<"A", "b", "c">>, <<"a", "b">>, <<"1", "a", "b">>,
      <<"a", "b", ".">>, <<"a", "_", "b">>, <<"a", ".", "-", "b">>,
      [i \in 1..(MaxUsernameLen + 1) |-> "a"] }
TokenArgs == { <<>>, <<"x">>, <<"X", "Y">>, <<"Q">>, <<"X", "">> }
DirArgs ==
    { EmptyPath, Path(FALSE, <<"data", ".", "sub">>), Path(TRUE, <<>>),
      Slashes(2, <<>>), Slashes(3, <<"..">>), Path(FALSE, <<"data", "..", "..">>),
      Path(FALSE, <<"data", "a~b">>), Path(FALSE, <<"ro">>),
      Path(FALSE, <<"file", "snap">>) }
Arguments ==
    [username : UserNames, tokens : TokenArgs, snapshots_dir : DirArgs,
     quiet : BOOLEAN, no_layer1 : BOOLEAN]

\* token.upper()
RECURSIVE Upper(_)
Upper(token) ==
    IF token = "" THEN ""
    ELSE UpperOf(CharAt(token, 1)) \o Upper(SubSeq(token, 2, Len(token)))

\* lines 405-406, 410, 421-422
RequestedTokens(args) ==
    IF args.tokens # <<>> THEN [i \in DOMAIN args.tokens |-> Upper(args.tokens[i])]
    ELSE DEFAULT_TOKENS
SNAPSHOTS_DIR(args) ==
    IF args.snapshots_dir # EmptyPath THEN args.snapshots_dir ELSE BASE_SNAPSHOTS_DIR
ACCOUNT(args) == Lower(IF args.username # <<>> THEN args.username ELSE DEFAULT_ACCOUNT)

MainEvent(ev, of) == [ev |-> ev, of |-> of]
\* the print calls main makes unless QUIET
Diagnostic(quiet, msg) == IF quiet THEN <<>> ELSE <<MainEvent("print", msg)>>

RangeOf(seq) == { seq[i] : i \in DOMAIN seq }
Orderings(set) ==
    { seq \in [1..Cardinality(set) -> set] : RangeOf(seq) = set }

\* ---- what the remote sides answer ----
\* balances and delegations of the account
MainHoldingsFeeds ==
    { [liquid |-> <<>>, delegated |-> <<>>],
      [liquid |-> <<Balance("X", Qty(100), {"stake", "delegations"}, Qty(50), Qty(10))>>,
       delegated |-> <<>>],
      [liquid |-> <<Balance("X", Qty(100), {"stake"}, Qty(50), Qty(10)),
                    Balance("Y", Qty(100), {}, Qty(50), Qty(10))>>,
       delegated |-> <<[symbol |-> "X", quantity |-> Qty(7)]>>],
      [liquid |-> <<Balance("X", NaQ, {}, Qty(50), Qty(10))>>, delegated |-> <<>>] }
NoHoldingsFeeds == { [liquid |-> <<>>, delegated |-> <<>>] }

\* a CoinGecko answer: a price, or a failed request
PriceAnswer(ok, value) == [ok |-> ok, value |-> value]
HiveAnswers == { PriceAnswer(FALSE, Q(0)), PriceAnswer(TRUE, <<1, 2>>) }
BtcAnswers == { PriceAnswer(FALSE, Q(0)), PriceAnswer(TRUE, Q(50000)) }
\* the request of get_hbd_price_usd: an error, or a price
HbdAnswers == { [kind |-> "exc", val |-> Q(0)], [kind |-> "ok", val |-> <<99, 100>>] }

\* hive_engine_utils.py lines 295-327: the memoised price, else the answer,
\* memoised when the request succeeded, else the fallback
PriceOfKey(cache, key, answer, fallback) ==
    IF key \in DOMAIN cache THEN cache[key]
    ELSE IF answer.ok THEN answer.value ELSE fallback
CacheAfter(cache, key, answer) ==
    IF key \notin DOMAIN cache /\ answer.ok
    THEN [k \in DOMAIN cache \cup {key} |-> IF k = key THEN answer.value ELSE cache[k]]
    ELSE cache
HbdFallback == Q(1)

\* get_market_info by its result: <<price_hive, vol24_hive>>
MarketAnswers == { <<Q(0), Q(0)>>, <<Q(2), Q(30)>> }
\* the holdings get_hive_layer1_holdings parses from the account and the
\* global properties
Layer1Holdings ==
    { [liquid_hive |-> 10, savings_hive |-> 0, hive_power_owned |-> 5,
       hive_power_delegated_out |-> 0, hive_power_delegated_in |-> 0,
       hive_power_effective |-> 5, liquid_hbd |-> 4, savings_hbd |-> 0] }
\* what call_hive_api gives the two readers of layer1_holdings.py
AccountAnswers == { [kind |-> "none", val |-> 0], [kind |-> "ok", val |-> 7] }
GlobalPropsAnswers == { [kind |-> "none", val |-> 0], [kind |-> "ok", val |-> 8] }
\* the price file an earlier run can have left behind: none, or one with an
\* HBD price older than the expiration window
MainPriceFiles ==
    { NoFile,
      Written([k \in {"HBD"} |->
                 Entry(<<101, 100>>, StartTime - CACHE_EXPIRATION_SECONDS - 100)]) }
\* get_user_pool_portfolio by its result, total_hive > 0 in every element
MainPool(token_pair, user_shares, total_hive) ==
    [token_pair |-> token_pair, user_shares |-> user_shares, total_hive |-> total_hive]
PoolAnswers ==
    { <<>>, <<MainPool("X:Y", 10, Q(250)), MainPool("Y:Z", 3, <<1, 2>>)>> }

\* ---- main, step by step ----
\* what main itself does not touch, and the same with the state of
\* modules/cache_utils.py
MainOthers == UNCHANGED <<fvars, log, mvars, pvars, hvars, xvars>>
MainFrame == MainOthers /\ UNCHANGED cvars
QUIET == s_args.quiet

\* lines 409-419
ValidateSnapshotsDir ==
    /\ s_pc = "start"
    /\ LET checked == validate_snapshots_dir(SNAPSHOTS_DIR(s_args))
       IN IF checked.ok
          THEN /\ s_pc' = "username"
               /\ UNCHANGED s_events
          ELSE /\ s_pc' = "returned"
               /\ s_events' = s_events \o Diagnostic(QUIET, checked.msg)
    /\ UNCHANGED <<s_args, s_provider, TOKENS, valid_token_symbols, s_holdings,
                   s_hive_usd, s_hbd_usd, s_btc_usd, s_price_cache, s_layer1,
                   token_data, s_pool_data, s_snapshot, s_raised>>
    /\ MainFrame

\* lines 421-430
ValidateUsername ==
    /\ s_pc = "username"
    /\ LET checked == validate_username(ACCOUNT(s_args))
       IN IF checked.ok
          THEN /\ s_pc' = "token_list"
               /\ UNCHANGED s_events
          ELSE /\ s_pc' = "returned"
               /\ s_events' = s_events \o Diagnostic(QUIET, checked.msg)
    /\ UNCHANGED <<s_args, s_provider, TOKENS, valid_token_symbols, s_holdings,
                   s_hive_usd, s_hbd_usd, s_btc_usd, s_price_cache, s_layer1,
                   token_data, s_pool_data, s_snapshot, s_raised>>
    /\ MainFrame

\* line 435
FetchAllTokens ==
    /\ s_pc = "token_list"
    /\ valid_token_symbols' = fetch_all_tokens(s_provider).symbols
    /\ s_events' = Append(s_events, MainEvent("lookup", "tokens"))
    /\ s_pc' = "tokens"
    /\ UNCHANGED <<s_args, s_provider, TOKENS, s_holdings,
                   s_hive_usd, s_hbd_usd, s_btc_usd, s_price_cache, s_layer1,
                   token_data, s_pool_data, s_snapshot, s_raised>>
    /\ MainFrame

\* lines 439-445: the first requested token that fails validation, 0 if none
FirstInvalid(tokens, valid_symbols) ==
    LET bad == { i \in DOMAIN tokens : ~validate_token(tokens[i], valid_symbols).ok }
    IN IF bad = {} THEN 0 ELSE CHOOSE i \in bad : \A j \in bad : i <= j
ValidateTokens ==
    /\ s_pc = "tokens"
    /\ LET i == FirstInvalid(TOKENS, valid_token_symbols)
       IN IF i = 0
          THEN /\ s_pc' = "pool_tokens"
               /\ UNCHANGED s_events
          ELSE /\ s_pc' = "returned"
               /\ s_events' = s_events \o
                    Diagnostic(QUIET, validate_token(TOKENS[i], valid_token_symbols).msg)
    /\ UNCHANGED <<s_args, s_provider, TOKENS, valid_token_symbols, s_holdings,
                   s_hive_usd, s_hbd_usd, s_btc_usd, s_price_cache, s_layer1,
                   token_data, s_pool_data, s_snapshot, s_raised>>
    /\ MainFrame

\* get_required_tokens_for_pools is not part of the source tree: it is taken
\* to return the tokens of the pools the account has positions in, none when
\* the provider answers nothing
PoolTokenSets(provider) == IF provider = "down" THEN {{}} ELSE {{}, {"Y"}}
\* lines 449-450; list(set(...)) fixes no order
RequiredTokensForPools ==
    /\ s_pc = "pool_tokens"
    /\ \E diesel_pool_tokens \in PoolTokenSets(s_provider) :
         /\ TOKENS' \in Orderings(RangeOf(TOKENS) \cup diesel_pool_tokens)
         /\ s_events' = Append(s_events, MainEvent("lookup", "pool_tokens"))
    /\ s_pc' = "holdings"
    /\ UNCHANGED <<s_args, s_provider, valid_token_symbols, s_holdings,
                   s_hive_usd, s_hbd_usd, s_btc_usd, s_price_cache, s_layer1,
                   token_data, s_pool_data, s_snapshot, s_raised>>
    /\ MainFrame

\* line 464; a provider that is down answers both tables with the empty list
TokenHoldings ==
    /\ s_pc = "holdings"
    /\ \E feeds \in IF s_provider = "down" THEN NoHoldingsFeeds ELSE MainHoldingsFeeds :
         LET res == get_token_holdings(feeds.liquid, feeds.delegated, RangeOf(TOKENS))
         IN IF res.kind = "ok"
            THEN /\ s_holdings' = res.val
                 /\ s_pc' = "prices"
                 /\ UNCHANGED s_raised
            ELSE /\ s_pc' = "raised"
                 /\ s_raised' = res.kind
                 /\ UNCHANGED s_holdings
    /\ s_events' = Append(s_events, MainEvent("lookup", "holdings"))
    /\ UNCHANGED <<s_args, s_provider, TOKENS, valid_token_symbols,
                   s_hive_usd, s_hbd_usd, s_btc_usd, s_price_cache, s_layer1,
                   token_data, s_pool_data, s_snapshot>>
    /\ MainFrame

\* lines 468-470: get_hive_price_usd and get_btc_price_usd memoise in the
\* price functions' own mapping, get_hbd_price_usd reads and writes
\* price_cache of modules/cache_utils.py and saves the cache files
Prices ==
    /\ s_pc = "prices"
    /\ \E hive \in HiveAnswers, hbd \in HbdAnswers, btc \in BtcAnswers :
         LET read == get_hbd_price_usd(cu_price_cache, clock, hbd, HbdFallback)
         IN /\ s_hive_usd' = PriceOfKey(s_price_cache, "HIVE", hive, Q(0))
            /\ s_hbd_usd' = read.ret
            /\ s_btc_usd' = PriceOfKey(s_price_cache, "BTC", btc, Q(0))
            /\ s_price_cache' = CacheAfter(CacheAfter(s_price_cache, "HIVE", hive),
                                           "BTC", btc)
            /\ cu_price_cache' = read.cache
            /\ IF read.saved
               THEN SaveFiles(read.cache, cu_market_cache, cu_diesel_cache)
               ELSE UNCHANGED <<price_file, market_file, diesel_file>>
    /\ s_events' = Append(s_events, MainEvent("lookup", "prices"))
    /\ s_pc' = "layer1"
    /\ UNCHANGED <<s_args, s_provider, TOKENS, valid_token_symbols, s_holdings,
                   s_layer1, token_data, s_pool_data, s_snapshot, s_raised>>
    /\ UNCHANGED <<clock, cu_market_cache, cu_diesel_cache, l1_cache, l1_defined, c_op>>
    /\ MainOthers

\* f"hive_account_{username}"
RECURSIVE JoinChars(_)
JoinChars(chars) == IF chars = <<>> THEN "" ELSE Head(chars) \o JoinChars(Tail(chars))
AccountKey(username) == "hive_account_" \o JoinChars(username)

\* layer1_holdings.py lines 194-247 get_hive_layer1_holdings by its two
\* reads: the account, and the global properties when there is an account;
\* None (<<>>) unless both gave something
get_hive_layer1_holdings(cache, now, username, account, props, parsed) ==
    LET account_info == l1_read(cache, now, AccountKey(username), account)
        global_props == l1_read(account_info.cache, now, "hive_global_props", props)
    IN IF account_info.failed
       THEN [holdings |-> <<>>, cache |-> account_info.cache, saved |-> FALSE]
       ELSE IF global_props.failed
       THEN [holdings |-> <<>>, cache |-> global_props.cache,
             saved |-> account_info.saved]
       ELSE [holdings |-> <<parsed>>, cache |-> global_props.cache,
             saved |-> account_info.saved \/ global_props.saved]

\* lines 475-483, with get_user_layer1_portfolio (layer1_holdings.py lines
\* 449-475): the holdings, and when there are holdings the three prices
\* again; every put of a reader is followed by save_cache, so the files hold
\* the caches as they are after the last put
Layer1 ==
    /\ s_pc = "layer1"
    /\ IF s_args.no_layer1
       THEN UNCHANGED <<s_layer1, s_price_cache, s_events, cu_price_cache, l1_cache,
                        price_file, market_file, diesel_file>>
       ELSE \E account \in AccountAnswers, props \in GlobalPropsAnswers,
               parsed \in Layer1Holdings :
              LET got == get_hive_layer1_holdings(l1_cache, clock, ACCOUNT(s_args),
                                                  account, props, parsed)
              IN /\ l1_cache' = got.cache
                 /\ IF got.holdings = <<>>
                    THEN /\ s_layer1' = <<>>
                         /\ s_events' = Append(s_events, MainEvent("lookup", "layer1"))
                         /\ UNCHANGED <<s_price_cache, cu_price_cache>>
                         /\ IF got.saved
                            THEN SaveFiles(cu_price_cache, cu_market_cache,
                                           cu_diesel_cache)
                            ELSE UNCHANGED <<price_file, market_file, diesel_file>>
                    ELSE \E hive \in HiveAnswers, hbd \in HbdAnswers, btc \in BtcAnswers :
                           LET hive_usd == PriceOfKey(s_price_cache, "HIVE", hive, Q(0))
                               btc_usd == PriceOfKey(s_price_cache, "BTC", btc, Q(0))
                               read == get_hbd_price_usd(cu_price_cache, clock, hbd,
                                                         HbdFallback)
                           IN /\ s_layer1' =
                                   <<[holdings |-> got.holdings[1],
                                      values |-> calculate_layer1_values(
                                                   got.holdings[1], hive_usd,
                                                   read.ret, btc_usd),
                                      hive_usd |-> hive_usd, hbd_usd |-> read.ret,
                                      btc_usd |-> btc_usd]>>
                              /\ s_price_cache' =
                                   CacheAfter(CacheAfter(s_price_cache, "HIVE", hive),
                                              "BTC", btc)
                              /\ cu_price_cache' = read.cache
                              /\ IF got.saved \/ read.saved
                                 THEN SaveFiles(read.cache, cu_market_cache,
                                                cu_diesel_cache)
                                 ELSE UNCHANGED <<price_file, market_file, diesel_file>>
                              /\ s_events' = s_events \o <<MainEvent("lookup", "layer1"),
                                                           MainEvent("lookup", "prices")>>
    /\ s_pc' = "token_lines"
    /\ UNCHANGED <<s_args, s_provider, TOKENS, valid_token_symbols, s_holdings,
                   s_hive_usd, s_hbd_usd, s_btc_usd,
                   token_data, s_pool_data, s_snapshot, s_raised>>
    /\ UNCHANGED <<clock, cu_market_cache, cu_diesel_cache, l1_defined, c_op>>
    /\ MainOthers

\* lines 489-515, one turn of the loop: sym is TOKENS[Len(token_data) + 1]
TokenLoop ==
    /\ s_pc = "token_lines"
    /\ Len(token_data) < Len(TOKENS)
    /\ LET sym == TOKENS[Len(token_data) + 1]
           d == HoldingsGet(s_holdings, sym)
       IN \E answer \in IF s_provider = "down" THEN {<<Q(0), Q(0)>>} ELSE MarketAnswers :
            LET line == TokenLine(sym, d, answer[1], answer[2], s_hive_usd, s_btc_usd)
            IN IF IsZeroDivision(line.total_btc)
               THEN /\ s_pc' = "raised"
                    /\ s_raised' = "ZeroDivisionError"
                    /\ UNCHANGED token_data
               ELSE /\ token_data' = Append(token_data, line)
                    /\ UNCHANGED <<s_pc, s_raised>>
    /\ s_events' = Append(s_events, MainEvent("lookup", "market"))
    /\ UNCHANGED <<s_args, s_provider, TOKENS, valid_token_symbols, s_holdings,
                   s_hive_usd, s_hbd_usd, s_btc_usd, s_price_cache, s_layer1,
                   s_pool_data, s_snapshot>>
    /\ MainFrame

\* lines 518-532
PoolPortfolio ==
    /\ s_pc = "token_lines"
    /\ Len(token_data) = Len(TOKENS)
    /\ \E answer \in IF s_provider = "down" THEN {<<>>} ELSE PoolAnswers :
         LET lines == [i \in DOMAIN answer |-> PoolLine(answer[i], s_hive_usd, s_btc_usd)]
         IN IF \E i \in DOMAIN lines : IsZeroDivision(lines[i].total_btc)
            THEN /\ s_pc' = "raised"
                 /\ s_raised' = "ZeroDivisionError"
                 /\ UNCHANGED s_pool_data
            ELSE /\ s_pool_data' = lines
                 /\ s_pc' = "save"
                 /\ UNCHANGED s_raised
    /\ s_events' = Append(s_events, MainEvent("lookup", "pools"))
    /\ UNCHANGED <<s_args, s_provider, TOKENS, valid_token_symbols, s_holdings,
                   s_hive_usd, s_hbd_usd, s_btc_usd, s_price_cache, s_layer1,
                   token_data, s_snapshot>>
    /\ MainFrame

Layer1Values == IF s_layer1 = <<>> THEN <<>> ELSE <<s_layer1[1].values>>

\* line 535: save_automated_snapshots writes one document per snapshot type of
\* the day, all with the summary and the metadata of create_portfolio_json
SaveAutomatedSnapshots ==
    /\ s_pc = "save"
    /\ LET summary == Summary(token_data, s_pool_data, Layer1Values, s_hive_usd, s_btc_usd)
       IN IF \E part \in DOMAIN summary : IsZeroDivision(summary[part].btc)
          THEN /\ s_pc' = "raised"
               /\ s_raised' = "ZeroDivisionError"
               /\ UNCHANGED <<s_snapshot, s_events>>
          ELSE /\ s_snapshot' =
                    <<[summary |-> summary,
                       hive_btc_ratio |-> MetadataRatio(s_hive_usd, s_btc_usd)]>>
               /\ s_events' = s_events \o <<MainEvent("save", "snapshots")>>
                                \o Diagnostic(QUIET, "Taking snapshots")
               /\ s_pc' = "saved"
               /\ UNCHANGED s_raised
    /\ UNCHANGED <<s_args, s_provider, TOKENS, valid_token_symbols, s_holdings,
                   s_hive_usd, s_hbd_usd, s_btc_usd, s_price_cache, s_layer1,
                   token_data, s_pool_data>>
    /\ MainFrame

\* lines 538-540, with clear_caches of modules/cache_utils.py
QuietReturn ==
    /\ s_pc = "saved"
    /\ QUIET
    /\ s_events' = Append(s_events, MainEvent("sweep", "clear_caches"))
    /\ RemoveExpiredAndSave
    /\ s_pc' = "returned"
    /\ UNCHANGED <<s_args, s_provider, TOKENS, valid_token_symbols, s_holdings,
                   s_hive_usd, s_hbd_usd, s_btc_usd, s_price_cache, s_layer1,
                   token_data, s_pool_data, s_snapshot, s_raised>>
    /\ UNCHANGED <<clock, l1_cache, l1_defined, c_op>>
    /\ MainOthers

\* lines 556-557 and 577-590: the grand total of the console summary in the
\* secondary coin, computed and printed only when more than one of the three
\* categories has data: <<>> when there is no summary, else <<the total>>.
\* `layer1_data` is has_layer1_data of line 555, True or False
CombinedBtc(layer1_data, tokens, pools, layer1_values, btc_usd) ==
    LET has_token_data == \E i \in DOMAIN tokens : QPos(tokens[i].total_usd)
        has_pool_data == Len(pools) > 0
        categories_count ==
            (IF layer1_data = "True" THEN 1 ELSE 0)
              + (IF has_token_data THEN 1 ELSE 0) + (IF has_pool_data THEN 1 ELSE 0)
        total_layer1_usd ==
            IF layer1_values # <<>> THEN layer1_values[1].total_combined_usd ELSE Q(0)
        total_combined_usd ==
            QAdd(QAdd(total_layer1_usd, SumOf(tokens, "total_usd")),
                 SumOf(pools, "total_usd"))
    IN IF categories_count > 1
       THEN <<IF QPos(btc_usd) THEN QDiv(total_combined_usd, btc_usd) ELSE Q(0)>>
       ELSE <<>>
\* lines 604-605: the ratio printed at the end, 0 when it is not printed
PrintedRatio(hive_usd, btc_usd) ==
    IF QPos(btc_usd) /\ QPos(hive_usd) THEN QFloor(QDiv(btc_usd, hive_usd)) ELSE 0

\* line 555: `layer1_holdings and layer1_values and ... > 0` is None when
\* there are no layer-1 holdings, else the truth of the comparison
has_layer1_data(layer1) ==
    IF layer1 = <<>> THEN "None"
    ELSE IF QPos(layer1[1].values.total_combined_usd) THEN "True" ELSE "False"

\* lines 542-614; sum() of line 578 adds its elements to 0 and raises
\* TypeError on None; line 614 is clear_caches of modules/cache_utils.py
DisplayAndReturn ==
    /\ s_pc = "saved"
    /\ ~QUIET
    /\ IF has_layer1_data(s_layer1) = "None"
       THEN /\ s_events' = Append(s_events, MainEvent("print", "tables"))
            /\ s_pc' = "raised"
            /\ s_raised' = "TypeError"
            /\ UNCHANGED <<cu_price_cache, cu_market_cache, cu_diesel_cache,
                           price_file, market_file, diesel_file>>
       ELSE /\ s_events' = s_events \o
                 <<MainEvent("print", "tables"),
                   [ev |-> "print", of |-> "report",
                    total_combined_btc |->
                        CombinedBtc(has_layer1_data(s_layer1), token_data, s_pool_data,
                                    Layer1Values, s_btc_usd),
                    hive_btc_ratio |-> PrintedRatio(s_hive_usd, s_btc_usd)],
                   MainEvent("sweep", "clear_caches")>>
            /\ RemoveExpiredAndSave
            /\ s_pc' = "returned"
            /\ UNCHANGED s_raised
    /\ UNCHANGED <<s_args, s_provider, TOKENS, valid_token_symbols, s_holdings,
                   s_hive_usd, s_hbd_usd, s_btc_usd, s_price_cache, s_layer1,
                   token_data, s_pool_data, s_snapshot>>
    /\ UNCHANGED <<clock, l1_cache, l1_defined, c_op>>
    /\ MainOthers

InitMain ==
    /\ f_pc = "idle"
    /\ f_retries = DefaultFetchRetries
    /\ f_delay = DefaultFetchDelay
    /\ f_table = ""
    /\ f_attempt = 0
    /\ f_result = NoResult
    /\ log = <<>>
    /\ MarketIdle
    /\ PoolIdle
    /\ clock = StartTime
    /\ price_file \in MainPriceFiles
    /\ market_file = NoFile
    /\ diesel_file = NoFile
    /\ cu_price_cache = LoadGlobal(price_file, NoEntries)
    /\ cu_market_cache = LoadGlobal(market_file, NoEntries)
    /\ cu_diesel_cache = LoadDiesel(diesel_file, NoEntries)
    /\ l1_cache = NoEntries
    /\ l1_defined = L1CacheSupplied
    /\ c_op = NoOp
    /\ h_call = NoCall
    /\ ExtraIdle
    /\ s_pc = "start"
    /\ s_args \in Arguments
    /\ s_provider \in {"up", "down"}
    /\ TOKENS = RequestedTokens(s_args)
    /\ valid_token_symbols = {}
    /\ s_holdings = <<>>
    /\ s_hive_usd = Q(0)
    /\ s_hbd_usd = Q(0)
    /\ s_btc_usd = Q(0)
    /\ s_price_cache = <<>>
    /\ s_layer1 = <<>>
    /\ token_data = <<>>
    /\ s_pool_data = <<>>
    /\ s_snapshot = <<>>
    /\ s_events = <<>>
    /\ s_raised = ""

NextMain ==
    \/ ValidateSnapshotsDir
    \/ ValidateUsername
    \/ FetchAllTokens
    \/ ValidateTokens
    \/ RequiredTokensForPools
    \/ TokenHoldings
    \/ Prices
    \/ Layer1
    \/ TokenLoop
    \/ PoolPortfolio
    \/ SaveAutomatedSnapshots
    \/ QuietReturn
    \/ DisplayAndReturn

SpecMain == InitMain /\ [][NextMain]_vars

\* ---- what the claims about main speak of ----
EventsOf(ev) == { i \in DOMAIN s_events : s_events[i].ev = ev }
\* the run got past the three validations
Validated ==
    \/ s_pc = "pool_tokens"
    \/ \E i \in EventsOf("lookup") : s_events[i].of = "pool_tokens"
\* main has been left, by return or by an exception
Ended == s_pc \in {"returned", "raised"}

\* C22: in take-snapshot main the sweep clear_caches runs exactly once per run
\* that passes validation, after every lookup and after
\* save_automated_snapshots, in quiet and in non-quiet mode, and never
\* between two lookups of the run.
C22_Original ==
    /\ (Validated /\ Ended) => Cardinality(EventsOf("sweep")) = 1
    /\ \A i \in EventsOf("sweep") :
         /\ EventsOf("save") # {}
         /\ \A j \in EventsOf("lookup") \cup EventsOf("save") : j < i
\* the part that holds: a run that returns after passing validation has swept
\* once, as its last step, after the snapshots were written
C22_SweepOnReturn ==
    /\ (Validated /\ s_pc = "returned") =>
          /\ Cardinality(EventsOf("sweep")) = 1
          /\ s_events[Len(s_events)].ev = "sweep"
    /\ \A i \in EventsOf("sweep") :
         /\ EventsOf("save") # {}
         /\ \A j \in EventsOf("lookup") \cup EventsOf("save") : j < i

\* main returned out of the token validation of lines 439-445
TokenRejected ==
    /\ s_pc = "returned"
    /\ FirstInvalid(TOKENS, valid_token_symbols) # 0
    /\ \E i \in EventsOf("lookup") : s_events[i].of = "tokens"
    /\ ~Validated

\* C26: no caller takes the empty result of an exhausted fetch for a verified
\* empty answer: with a provider that fails every call, main does not reject
\* a requested token as missing from the token list.
C26_Original ==
    s_provider = "down" => ~TokenRejected
\* what the code does instead: with the provider down the token list is
\* empty and every run that reaches the token validation is rejected there
C26_DownRejectsAll ==
    (s_provider = "down" /\ Ended /\ \E i \in EventsOf("lookup") : s_events[i].of = "tokens")
        => (TokenRejected /\ valid_token_symbols = {})
\* the pool side of the same claim, in SpecHoldings: an empty first answer
\* ends get_diesel_pool_holdings with {} after that one fetch, whatever its
\* retry budget
C26_PoolHoldingsFirstEmpty ==
    (h_call.op = "get_diesel_pool_holdings" /\ h_call.kind # "pending"
       /\ h_call.retries >= 1 /\ h_call.feeds[1] = <<>>)
        => (h_call.kind = "ok" /\ h_call.ret = <<>> /\ h_call.fetches = 1
              /\ h_call.sleeps = <<>>)

\* the fraction q is the quotient n / d
IsQuotient(q, n, d) == q[2] > 0 /\ d > 0 /\ q[1] * d = n * q[2]

\* C27: every token line of main has, for the total quantity liquid + staked
\* + delegated_away of its symbol: value in the reference coin = quantity *
\* price, fiat value = quantity * price * fiat price of the reference coin,
\* and secondary-coin value = fiat value / fiat price of the secondary coin
\* when that price is > 0.
C27_TokenLines ==
    \A i \in DOMAIN token_data :
        LET t == token_data[i]
            d == HoldingsGet(s_holdings, t.symbol)
            quantity == d.liquid + d.staked + d.delegated_away
        IN /\ t.symbol = TOKENS[i]
           /\ t.liquid = d.liquid /\ t.staked = d.staked /\ t.delegated = d.delegated_away
           /\ IsQuotient(t.total_hive, quantity * t.price_hive[1], t.price_hive[2])
           /\ IsQuotient(t.total_usd, quantity * t.price_hive[1] * s_hive_usd[1],
                         t.price_hive[2] * s_hive_usd[2])
           /\ s_btc_usd[1] > 0 =>
                IsQuotient(t.total_btc, t.total_usd[1] * s_btc_usd[2],
                           t.total_usd[2] * s_btc_usd[1])
\* liquid 100, staked 50, delegated 10 at price 2.0, with HIVE at 0.5 USD and
\* BTC at 50000 USD: 160 tokens, 160.0 USD, 0.0032 BTC
C27_Witness ==
    /\ s_pc = "returned"
    /\ s_hive_usd = <<1, 2>>
    /\ s_btc_usd = <<50000, 1>>
    /\ token_data # <<>>
    /\ token_data[1].symbol = "X"
    /\ token_data[1].liquid = 100
    /\ token_data[1].staked = 50
    /\ token_data[1].delegated = 10
    /\ token_data[1].price_hive = <<2, 1>>
    /\ token_data[1].total_hive = <<320, 1>>
    /\ token_data[1].total_usd = <<160, 1>>
    /\ token_data[1].total_btc = <<2, 625>>

\* every secondary-coin value main holds
SecondaryValues ==
    { token_data[i].total_btc : i \in DOMAIN token_data }
      \cup { s_pool_data[i].total_btc : i \in DOMAIN s_pool_data }
      \cup UNION { { s_snapshot[i].summary[part].btc : part \in DOMAIN s_snapshot[i].summary } :
                     i \in DOMAIN s_snapshot }
      \cup UNION { RangeOf(s_events[i].total_combined_btc) :
                     i \in { j \in EventsOf("print") : s_events[j].of = "report" } }
\* those calculate_layer1_values computed, with the BTC price it was given
Layer1SecondaryValues ==
    IF s_layer1 = <<>> THEN {}
    ELSE { s_layer1[1].values.total_hive_btc, s_layer1[1].values.total_hbd_btc,
           s_layer1[1].values.total_combined_btc }

\* C28: wherever a value is converted to the secondary coin (token lines,
\* pool lines, layer-1 values, summary totals of the snapshot and of the
\* console report), a secondary-coin fiat price of 0 gives the value 0, and
\* no division by zero is executed.
C28_ZeroSecondaryPrice ==
    /\ s_raised # "ZeroDivisionError"
    /\ \A v \in SecondaryValues \cup Layer1SecondaryValues : ~IsZeroDivision(v)
    /\ s_btc_usd = Q(0) => \A v \in SecondaryValues : v = Q(0)
    /\ (s_layer1 # <<>> /\ s_layer1[1].btc_usd = Q(0)) =>
          \A v \in Layer1SecondaryValues : v = Q(0)
\* a non-quiet run that returned with BTC at 0 USD and HIVE at 0.5 USD, a
\* token line worth 160 USD, pool lines, layer-1 holdings worth something and
\* a snapshot whose grand total is positive in USD and 0 in BTC
C28_Witness ==
    /\ s_pc = "returned"
    /\ ~QUIET
    /\ s_btc_usd = Q(0)
    /\ s_hive_usd = <<1, 2>>
    /\ token_data # <<>>
    /\ token_data[1].total_usd = Q(160)
    /\ token_data[1].total_btc = Q(0)
    /\ s_pool_data # <<>>
    /\ s_pool_data[1].total_usd = Q(125)
    /\ s_pool_data[1].total_btc = Q(0)
    /\ s_layer1 # <<>>
    /\ s_layer1[1].btc_usd = Q(0)
    /\ QPos(s_layer1[1].values.total_combined_usd)
    /\ s_layer1[1].values.total_combined_btc = Q(0)
    /\ s_snapshot # <<>>
    /\ QPos(s_snapshot[1].summary.total_portfolio.usd)
    /\ s_snapshot[1].summary.total_portfolio.btc = Q(0)
    /\ s_snapshot[1].hive_btc_ratio = 0

\* main returned out of one of the three validations of lines 409-445
ValidationFailed == s_pc = "returned" /\ ~Validated
\* the three validations, on what main hands them
AllValid ==
    /\ validate_snapshots_dir(SNAPSHOTS_DIR(s_args)).ok
    /\ validate_username(ACCOUNT(s_args)).ok
    /\ \A i \in DOMAIN s_args.tokens :
         validate_token(Upper(s_args.tokens[i]), valid_token_symbols).ok
    /\ s_args.tokens = <<>> =>
         \A i \in DOMAIN DEFAULT_TOKENS :
            validate_token(DEFAULT_TOKENS[i], valid_token_symbols).ok
NothingSaved == EventsOf("save") = {} /\ s_snapshot = <<>>

\* C31: when the snapshots directory, the account name or a requested token
\* fails validation, main ends with a printed diagnostic and without a call
\* of save_automated_snapshots or a snapshot write; the three validations
\* precede the first snapshot write.
C31_Original ==
    /\ ValidationFailed =>
          /\ NothingSaved
          /\ s_events # <<>>
          /\ s_events[Len(s_events)].ev = "print"
    /\ ~NothingSaved => (Validated /\ AllValid)
\* the part that holds: nothing is saved by a run that failed a validation,
\* a save comes after the three validations passed, and the diagnostic is
\* printed unless the run is quiet
C31_NoSaveOnInvalid ==
    /\ ValidationFailed =>
          /\ NothingSaved
          /\ ~QUIET => (s_events # <<>> /\ s_events[Len(s_events)].ev = "print")
          /\ QUIET => EventsOf("print") = {}
          /\ ~AllValid
    /\ ~NothingSaved => (Validated /\ AllValid)

\* ------------------------------------------------------------------
\* The five readers of an external price or account source side by side:
\* get_hive_price_usd and get_btc_price_usd of hive_engine_utils.py with
\* the module's own price_cache, and the three cache-first readers of
\* modules/layer1_holdings.py.
\* ------------------------------------------------------------------
\* a CoinGecko answer: the request raised, a body with a price, a body
\* without one (.get("usd", 0))
ReaderAnswers == { PriceAnswer(FALSE, Q(0)), PriceAnswer(TRUE, Q(5)), PriceAnswer(TRUE, Q(0)) }

\* variant: the fallback memoised like a price
CacheAfterAlways(cache, key, answer) ==
    IF key \notin DOMAIN cache
    THEN [k \in DOMAIN cache \cup {key} |->
            IF k = key THEN (IF answer.ok THEN answer.value ELSE Q(0)) ELSE cache[k]]
    ELSE cache

\* hive_engine_utils.py lines 299-310 and 316-327: the memo written by a
\* request that succeeded
PriceMemoAfter(cache, key, answer) == CacheAfter(cache, key, answer)

\* hive_engine_utils.py lines 295-310 and 312-327: one of the two memoised
\* price functions
GetPriceUsd(op, key) ==
    /\ \E answer \in ReaderAnswers :
         LET hit == key \in DOMAIN s_price_cache
             record == Op(op, key, <<>>, ~hit, PriceOfKey(s_price_cache, key, answer, Q(0)))
         IN /\ c_op' = IF ~hit /\ ~answer.ok THEN Failed(record) ELSE record
            /\ s_price_cache' = PriceMemoAfter(s_price_cache, key, answer)
    /\ UNCHANGED <<clock, cu_price_cache, cu_market_cache, cu_diesel_cache, l1_cache, l1_defined,
                   price_file, market_file, diesel_file>>
    /\ UNCHANGED <<s_pc, s_args, s_provider, TOKENS, valid_token_symbols, s_holdings,
                   s_hive_usd, s_hbd_usd, s_btc_usd, s_layer1, token_data, s_pool_data,
                   s_snapshot, s_events, s_raised>>
    /\ UNCHANGED <<fvars, log, mvars, pvars, hvars, xvars>>

GetHivePriceUsd == GetPriceUsd("get_hive_price_usd", "HIVE")
GetBtcPriceUsd == GetPriceUsd("get_btc_price_usd", "BTC")

NextReaders ==
    \/ Tick
    \/ ImportLayer1Holdings
    \/ clear_caches
    \/ GetHivePriceUsd
    \/ GetBtcPriceUsd
    \/ GetHbdPriceUsd
    \/ GetHiveAccountInfo
    \/ GetHiveGlobalProperties

SpecReaders == InitCache /\ [][NextReaders]_vars

AllCaches == <<s_price_cache, cu_price_cache, cu_market_cache, cu_diesel_cache, l1_cache,
               price_file, market_file, diesel_file>>
PriceReaders == {"get_hive_price_usd", "get_btc_price_usd"}
L1Readers == {"get_hive_account_info", "get_hive_global_properties"}

\* C38: a reader whose remote source failed returns its fallback (0 for the
\* two memoised prices, 1.0 for HBD, None for the two layer-1 readers) and
\* leaves every cache and every cache file as it was; the next call of the
\* same reader goes to the remote source again.
C38_FailedFetchWritesNothing ==
    [][ /\ (c_op'.failed /\ vars' # vars) =>
             /\ AllCaches' = AllCaches
             /\ c_op'.remote
             /\ c_op'.op \in PriceReaders => c_op'.ret = Q(0)
             /\ c_op'.op = "get_hbd_price_usd" => c_op'.ret = HbdDefault
             /\ c_op'.op \in L1Readers => c_op'.ret = 0
        /\ (c_op.failed /\ c_op'.op = c_op.op) => c_op'.remote
      ]_vars

\* the HIVE price request failed with the other caches filled
C38_Witness ==
    /\ c_op.op = "get_hive_price_usd"
    /\ c_op.failed
    /\ "HIVE" \notin DOMAIN s_price_cache
    /\ "BTC" \in DOMAIN s_price_cache
    /\ "HBD" \in DOMAIN cu_price_cache
    /\ "hive_account_alice" \in DOMAIN l1_cache
    /\ price_file.exists

\* ------------------------------------------------------------------
\* modules/layer1_holdings.py: call_hive_api, request by request
\* ------------------------------------------------------------------
\* lines 33-38
HIVE_API_ENDPOINTS ==
    <<"https://api.hive.blog", "https://api.hivekings.com", "https://anyx.io",
      "https://api.openhive.network">>
\* line 40: retries=3
DefaultApiRetries == 3
ApiRetryBudgets == 0..DefaultApiRetries
\* the seconds slept after a raised request (lines 77, 82, 87)
ApiSleep == 2

\* what one requests.post can lead to: a body with "result", a body with
\* "error", a body with neither, a Timeout, another RequestException (an
\* HTTP error status among them), any other exception (a body that is not
\* JSON or not a mapping)
ApiAnswers ==
    [kind : {"result"}, val : {0, 7}]
      \cup [kind : {"error", "neither", "Timeout", "RequestException", "Exception"},
             val : {0}]
ApiRaised(answer) == answer.kind \in {"Timeout", "RequestException", "Exception"}

ApiPost(endpoint, attempt, out) ==
    [op |-> "post", endpoint |-> endpoint, attempt |-> attempt,
     out |-> IF ApiRaised(out) THEN "raised" ELSE IF out.kind = "result" THEN "result"
             ELSE "answered", dur |-> 0, val |-> out.val]
ApiSlept(endpoint, attempt) ==
    [op |-> "sleep", endpoint |-> endpoint, attempt |-> attempt, out |-> "",
     dur |-> ApiSleep, val |-> 0]

\* variant: the next endpoint after the first failed request
ApiNextHasty(endpoint, attempt, retries) ==
    IF endpoint + 1 <= Len(HIVE_API_ENDPOINTS) THEN <<"post", endpoint + 1, 0>>
    ELSE <<"done", endpoint, attempt>>

\* lines 56-57: where the two loops stand after a request that did not
\* return: the next attempt, the next endpoint, or past both
ApiNext(endpoint, attempt, retries) ==
    IF attempt + 1 < retries THEN <<"post", endpoint, attempt + 1>>
    ELSE IF endpoint + 1 <= Len(HIVE_API_ENDPOINTS) THEN <<"post", endpoint + 1, 0>>
    ELSE <<"done", endpoint, attempt>>

ApiNone == [kind |-> "None", val |-> 0]
ApiPending == [kind |-> "pending", val |-> 0]

\* lines 58-87: one request and what follows it up to the next request or
\* the return
ApiRequest ==
    /\ a_pc = "post"
    /\ a_retries > 0
    /\ \E answer \in ApiAnswers :
         LET post == ApiPost(a_endpoint, a_attempt, answer)
             next == ApiNext(a_endpoint, a_attempt, a_retries)
         IN IF answer.kind = "result"
              THEN /\ a_log' = Append(a_log, post)
                   /\ a_ret' = [kind |-> "result", val |-> answer.val]
                   /\ a_pc' = "done"
                   /\ UNCHANGED <<a_endpoint, a_attempt>>
              ELSE /\ a_log' = IF ApiRaised(answer) /\ a_attempt < a_retries - 1
                                 THEN a_log \o <<post, ApiSlept(a_endpoint, a_attempt)>>
                                 ELSE Append(a_log, post)
                   /\ a_pc' = next[1]
                   /\ a_endpoint' = next[2]
                   /\ a_attempt' = next[3]
                   /\ a_ret' = IF next[1] = "done" THEN ApiNone ELSE a_ret
    /\ UNCHANGED a_retries
    /\ UNCHANGED <<fvars, log, mvars, pvars, cvars, hvars, svars, tvars, u_call>>

\* lines 56-57 and 89-90 with retries = 0: no request is made
ApiNoBudget ==
    /\ a_pc = "post"
    /\ a_retries <= 0
    /\ a_pc' = "done"
    /\ a_ret' = ApiNone
    /\ UNCHANGED <<a_retries, a_endpoint, a_attempt, a_log>>
    /\ UNCHANGED <<fvars, log, mvars, pvars, cvars, hvars, svars, tvars, u_call>>

InitApi ==
    /\ f_pc = "idle"
    /\ f_retries = DefaultFetchRetries
    /\ f_delay = DefaultFetchDelay
    /\ f_table = ""
    /\ f_attempt = 0
    /\ f_result = NoResult
    /\ log = <<>>
    /\ MarketIdle
    /\ PoolIdle
    /\ CacheIdle
    /\ h_call = NoCall
    /\ MainIdle
    /\ TokensIdle
    /\ u_call = NoWholeCall
    /\ a_pc = "post"
    /\ a_retries \in ApiRetryBudgets
    /\ a_endpoint = 1
    /\ a_attempt = 0
    /\ a_log = <<>>
    /\ a_ret = ApiPending

NextApi ==
    \/ ApiRequest
    \/ ApiNoBudget

SpecApi == InitApi /\ [][NextApi]_vars

ApiPostIdx == { i \in 1..Len(a_log) : a_log[i].op = "post" }
\* the posts before place i
ApiPostsBefore(i) == Cardinality({ j \in ApiPostIdx : j < i })
ApiFailedPosts == { i \in ApiPostIdx : a_log[i].out # "result" }

\* C37: the n-th request (n = 0, 1, ...) goes to endpoint n div retries of
\* the list with attempt n mod retries, so that the endpoints are contacted
\* in list order and each one gets exactly `retries` failed requests before
\* the next is contacted; a response with "result" is the last thing done
\* and its result is what is returned; the call ends only with such a
\* result or with None, and with None exactly when
\* len(endpoints) * retries requests have failed.
C37_EndpointsInOrder ==
    /\ \A i \in ApiPostIdx :
         LET n == ApiPostsBefore(i)
         IN /\ a_retries > 0
            /\ a_log[i].endpoint = (n \div a_retries) + 1
            /\ a_log[i].endpoint <= Len(HIVE_API_ENDPOINTS)
            /\ a_log[i].attempt = n % a_retries
            /\ a_log[i].out = "result" =>
                 /\ i = Len(a_log)
                 /\ a_pc = "done"
                 /\ a_ret = [kind |-> "result", val |-> a_log[i].val]
    /\ a_ret.kind \in {"pending", "result", "None"}
    /\ a_pc = "done" <=> a_ret.kind # "pending"
    /\ a_ret.kind = "result" => (a_log # <<>> /\ a_log[Len(a_log)].out = "result")
    /\ a_ret.kind = "None" <=>
         /\ a_pc = "done"
         /\ ApiFailedPosts = ApiPostIdx
         /\ Cardinality(ApiPostIdx) = Len(HIVE_API_ENDPOINTS) * a_retries

\* the third endpoint answers after three failures on each of the first two
C37_Witness ==
    /\ a_pc = "done"
    /\ a_retries = 3
    /\ a_ret = [kind |-> "result", val |-> 7]
    /\ Cardinality(ApiPostIdx) = 7
    /\ a_log[Len(a_log)].endpoint = 3
    /\ \E i \in ApiPostIdx : a_log[i].out = "answered"
    /\ \E i \in ApiPostIdx : a_log[i].out = "raised"

\* ------------------------------------------------------------------
\* hive_engine_utils.py: fetch_all_tokens, batch by batch, against any
\* provider.  The local `tokens` is kept as the set of its records, which is
\* all the result depends on; `offset` is kept modulo MaxTokenOffset + 1 and
\* the count of fetches up to MaxTokenOffset, no table of TokenTables
\* reaching that far.
\* ------------------------------------------------------------------
MaxTokenOffset == 6
MaxTableLen == 4
TokenRecords == {TokenRecord("X", {"symbol"}), TokenRecord("Y", {"symbol"}), TokenRecord("", {})}
RECURSIVE SeqsUpTo(_, _)
SeqsUpTo(S, n) ==
    IF n = 0 THEN {<<>>}
    ELSE LET shorter == SeqsUpTo(S, n - 1)
         IN shorter \cup { Append(q, x) : q \in { r \in shorter : Len(r) = n - 1 }, x \in S }
TokenTables == SeqsUpTo(TokenRecords, MaxTableLen)

\* the ways the tokens table can answer: a finite table paged honestly, a
\* source that has a full page for every offset, a source that is down
TokenProviders ==
    [kind : {"table"}, table : TokenTables]
      \cup [kind : {"endless", "down"}, table : {<<>>}]
FullPage == <<TokenRecord("X", {"symbol"}), TokenRecord("Y", {"symbol"})>>

\* what the provider has at `offset`
TokenPage(provider, limit, off) ==
    IF provider.kind = "down" THEN <<>>
    ELSE IF provider.kind = "endless" THEN SubSeq(FullPage, 1, Min2(limit, Len(FullPage)))
    ELSE SubSeq(provider.table, off + 1, Min2(off + limit, Len(provider.table)))

Saturated(n) == Min2(n, MaxTokenOffset)
Wrapped(n) == n % (MaxTokenOffset + 1)

\* variant: the loop left after a page that is not full
TokensLoopEndsShort(batch, limit) == Len(batch) < limit

\* lines 285-286: `if not batch: break`
TokensLoopEnds(batch, limit) == batch = <<>>

\* lines 284-290: one iteration of `while True`, and the return after break;
\* fetch_from_hive_engine gives the page, or [] when its attempts ran out
FetchTokensBatch ==
    /\ t_pc = "while"
    /\ \E exhausted \in BOOLEAN :
         LET batch == IF exhausted THEN <<>>
                      ELSE TokenPage(t_provider, TokenBatchLimit, t_offset)
         IN /\ t_calls' = Saturated(t_calls + 1)
            /\ IF TokensLoopEnds(batch, TokenBatchLimit)
                 THEN /\ t_pc' = "done"
                      /\ UNCHANGED <<t_tokens, t_offset>>
                 ELSE /\ t_tokens' = t_tokens \cup RangeOf(batch)
                      /\ t_offset' = Wrapped(t_offset + Len(batch))
                      /\ t_pc' = "while"
    /\ UNCHANGED t_provider
    /\ UNCHANGED <<fvars, log, mvars, pvars, cvars, hvars, svars, avars, u_call>>

\* line 290: the set the call returns
TokensResult == { t.symbol : t \in { r \in t_tokens : "symbol" \in r.fields } }

InitTokens ==
    /\ f_pc = "idle"
    /\ f_retries = DefaultFetchRetries
    /\ f_delay = DefaultFetchDelay
    /\ f_table = ""
    /\ f_attempt = 0
    /\ f_result = NoResult
    /\ log = <<>>
    /\ MarketIdle
    /\ PoolIdle
    /\ CacheIdle
    /\ h_call = NoCall
    /\ MainIdle
    /\ ApiIdle
    /\ u_call = NoWholeCall
    /\ t_pc = "while"
    /\ t_provider \in TokenProviders
    /\ t_offset = 0
    /\ t_tokens = {}
    /\ t_calls = 0

NextTokens == FetchTokensBatch

\* the loop runs on as long as it can
SpecTokens == InitTokens /\ [][NextTokens]_vars /\ WF_vars(NextTokens)

\* C32 as stated, for fetch_all_tokens: the call ends whatever the provider
\* does.
C32_Original == <>(t_pc = "done")

\* what holds instead: against every provider but the endless one the call
\* ends, having read the whole table unless a fetch ran out of attempts
C32_EndsOnFiniteTable ==
    /\ (t_provider.kind # "endless") ~> (t_pc = "done")
    /\ []((t_pc = "done" /\ t_provider.kind = "table") =>
             t_offset <= Len(t_provider.table))

\* ------------------------------------------------------------------
\* modules/misc_utils.py: get_snapshot_types_for_date, over the dates of a
\* few years
\* ------------------------------------------------------------------
FirstYear == 2023
LastYear == 2025
IsLeap(year) == year % 4 = 0 /\ (year % 100 # 0 \/ year % 400 = 0)
DaysInMonth(year, month) ==
    IF month = 2 THEN (IF IsLeap(year) THEN 29 ELSE 28)
    ELSE IF month \in {4, 6, 9, 11} THEN 30 ELSE 31
Date(year, month, day) == [year |-> year, month |-> month, day |-> day]
Dates ==
    { dt \in [year : FirstYear..LastYear, month : 1..12, day : 1..31] :
        dt.day <= DaysInMonth(dt.year, dt.month) }

\* datetime.date.toordinal: day 1 is 0001-01-01
DaysBeforeYear(year) ==
    LET y == year - 1 IN y * 365 + (y \div 4) - (y \div 100) + (y \div 400)
RECURSIVE DaysBeforeMonth(_, _)
DaysBeforeMonth(year, month) ==
    IF month = 1 THEN 0
    ELSE DaysBeforeMonth(year, month - 1) + DaysInMonth(year, month - 1)
ToOrdinal(date_obj) ==
    DaysBeforeYear(date_obj.year) + DaysBeforeMonth(date_obj.year, date_obj.month)
      + date_obj.day
\* datetime.date.weekday: Monday is 0
Weekday(date_obj) == (ToOrdinal(date_obj) + 6) % 7

\* variant: the quarters counted from their last months
QuarterMonthsLast == {3, 6, 9, 12}

\* line 85: [1, 4, 7, 10]
QuarterMonths == {1, 4, 7, 10}

\* lines 72-92
get_snapshot_types_for_date(date_obj) ==
    <<"daily">>
      \o (IF Weekday(date_obj) = 0 THEN <<"weekly">> ELSE <<>>)
      \o (IF date_obj.day = 1 THEN <<"monthly">> ELSE <<>>)
      \o (IF date_obj.day = 1 /\ date_obj.month \in QuarterMonths
            THEN <<"quarterly">> ELSE <<>>)
      \o (IF date_obj.day = 1 /\ date_obj.month = 1 THEN <<"yearly">> ELSE <<>>)

Pending == [kind |-> "pending"]
WholeCall(op, arg) == [op |-> op, arg |-> arg, out |-> Pending]

\* the call made for a date
SnapshotTypesForDate ==
    /\ u_call.op = "get_snapshot_types_for_date"
    /\ u_call.out = Pending
    /\ u_call' = [u_call EXCEPT !.out = [kind |-> "list",
                                          val |-> get_snapshot_types_for_date(u_call.arg)]]
    /\ UNCHANGED <<fvars, log, mvars, pvars, cvars, hvars, svars, avars, tvars>>

\* everything but u_call at rest
WholeCallOnly ==
    /\ f_pc = "idle"
    /\ f_retries = DefaultFetchRetries
    /\ f_delay = DefaultFetchDelay
    /\ f_table = ""
    /\ f_attempt = 0
    /\ f_result = NoResult
    /\ log = <<>>
    /\ MarketIdle
    /\ PoolIdle
    /\ CacheIdle
    /\ h_call = NoCall
    /\ MainIdle
    /\ ApiIdle
    /\ TokensIdle

InitDates ==
    /\ WholeCallOnly
    /\ u_call \in { WholeCall("get_snapshot_types_for_date", dt) : dt \in Dates }

NextDates == SnapshotTypesForDate

SpecDates == InitDates /\ [][NextDates]_vars

TypesReturned == u_call.op = "get_snapshot_types_for_date" /\ u_call.out # Pending
Types == RangeOf(u_call.out.val)

\* C34: the list returned for a date holds 'daily' always, 'weekly' exactly
\* on a Monday, 'monthly' exactly on a day 1, 'quarterly' exactly on day 1 of
\* month 1, 4, 7 or 10, 'yearly' exactly on day 1 of month 1, each at most
\* once; so yearly implies quarterly implies monthly implies daily.
C34_SnapshotTypes ==
    TypesReturned =>
        LET d == u_call.arg
        IN /\ "daily" \in Types
           /\ "weekly" \in Types <=> Weekday(d) = 0
           /\ "monthly" \in Types <=> d.day = 1
           /\ "quarterly" \in Types <=> (d.day = 1 /\ d.month \in {1, 4, 7, 10})
           /\ "yearly" \in Types <=> (d.day = 1 /\ d.month = 1)
           /\ Types \subseteq {"daily", "weekly", "monthly", "quarterly", "yearly"}
           /\ Cardinality(Types) = Len(u_call.out.val)
           /\ "yearly" \in Types => "quarterly" \in Types
           /\ "quarterly" \in Types => "monthly" \in Types
           /\ "monthly" \in Types => "daily" \in Types
           \* Mondays of the calendar: 2024-01-01, 2025-09-01, 2023-05-01
           /\ d \in {Date(2024, 1, 1), Date(2025, 9, 1), Date(2023, 5, 1)} =>
                "weekly" \in Types
           /\ d \in {Date(2025, 1, 1), Date(2024, 2, 29), Date(2023, 12, 31)} =>
                "weekly" \notin Types

\* 2024-01-01 was a Monday: all five types
C34_Witness ==
    /\ TypesReturned
    /\ u_call.arg = Date(2024, 1, 1)
    /\ u_call.out.val = <<"daily", "weekly", "monthly", "quarterly", "yearly">>

\* ------------------------------------------------------------------
\* he-tokens-snapshot.py: validate_token, over strings as sequences of
\* characters
\* ------------------------------------------------------------------
UpperLetters == CharsOf(Capitals)
SymbolDigits == CharsOf("0123456789")
\* the characters the strings below are made of
SymbolChars == {"A", "Z", "7", "a", ".", "-"}
\* str.upper() on a string
UpperStr(token) == [i \in DOMAIN token |-> UpperOf(token[i])]

\* line 226: the length limit
SymbolLimit == 10
MaxShortLen == 3
\* every string of up to MaxShortLen characters, and the strings of letters
\* and dots around the length limit, some with a digit in front
SymbolStrings ==
    SeqsUpTo(SymbolChars, MaxShortLen)
      \cup UNION { [1..n -> {"A", "."}] : n \in (SymbolLimit - 1)..(SymbolLimit + 1) }
      \cup { <<"7">> \o q : q \in UNION { [1..n -> {"A"}] : n \in (SymbolLimit - 1)..SymbolLimit } }

\* line 234
he_allowed_chars == CharsOf("ABCDEFGHIJKLMNOPQRSTUVWXYZ.")

\* he-tokens-snapshot.py lines 215-238 validate_token(token)
he_validate_token(token) ==
    IF token = <<>> THEN [ok |-> FALSE, msg |-> "Token cannot be empty"]
    ELSE IF Len(token) > SymbolLimit
      THEN [ok |-> FALSE, msg |-> "exceeds 10 character limit"]
    ELSE IF token # UpperStr(token)
      THEN [ok |-> FALSE, msg |-> "must be uppercase"]
    ELSE IF ~(\A i \in DOMAIN token : token[i] \in he_allowed_chars)
      THEN [ok |-> FALSE, msg |-> "can only contain uppercase letters and dots"]
    ELSE [ok |-> TRUE, msg |-> "Valid token"]

\* the call made for a string
HeValidateToken ==
    /\ u_call.op = "validate_token"
    /\ u_call.out = Pending
    /\ u_call' = [u_call EXCEPT !.out = [kind |-> "pair",
                                          val |-> he_validate_token(u_call.arg)]]
    /\ UNCHANGED <<fvars, log, mvars, pvars, cvars, hvars, svars, avars, tvars>>

InitSymbols ==
    /\ WholeCallOnly
    /\ u_call \in { WholeCall("validate_token", token) : token \in SymbolStrings }

NextSymbols == HeValidateToken

SpecSymbols == InitSymbols /\ [][NextSymbols]_vars

TokenJudged == u_call.op = "validate_token" /\ u_call.out # Pending
Accepted == u_call.out.val.ok
MadeOf(token, chars) == \A i \in DOMAIN token : token[i] \in chars

\* C35 as stated: validate_token accepts exactly the non-empty strings of at
\* most 10 characters made of uppercase letters, digits and dots.
C35_Original ==
    TokenJudged =>
        (Accepted <=>
            /\ u_call.arg # <<>>
            /\ Len(u_call.arg) <= 10
            /\ MadeOf(u_call.arg, UpperLetters \cup SymbolDigits \cup {"."}))

\* what the code does: it accepts exactly the non-empty strings of at most
\* 10 characters made of uppercase letters and dots, a digit being refused
C35_LettersAndDots ==
    TokenJudged =>
        (Accepted <=>
            /\ u_call.arg # <<>>
            /\ Len(u_call.arg) <= 10
            /\ MadeOf(u_call.arg, UpperLetters \cup {"."}))

\* a symbol with a digit is refused for its characters
C35_DigitRefused ==
    /\ TokenJudged
    /\ u_call.arg = <<"A", "7">>
    /\ ~Accepted
    /\ u_call.out.val.msg = "can only contain uppercase letters and dots"

\* ------------------------------------------------------------------
\* he-tokens-snapshot.py: main with display_table, taken whole.  Its
\* validate_username is the text of modules/misc_utils.py; the holdings,
\* the fiat prices and get_market_info are taken by their results.
\* ------------------------------------------------------------------
\* lines 28-29
HE_DEFAULT_ACCOUNT == <<"g", "a", "d", "r", "i", "a", "n">>
SwapHive == <<"S", "W", "A", "P", ".", "H", "I", "V", "E">>
HE_DEFAULT_TOKENS ==
    <<SwapHive, <<"S", "P", "S">>, <<"D", "E", "C">>, <<"L", "E", "O">>>>

HeUserNames == { <<>>, <<"a", "b", "1">>, <<"1", "a", "b">> }
HeTokenArgs == { <<>>, << <<"a">> >>, << <<"A">>, <<"Z", ".">> >>, << <<"A">>, <<"A", "7">> >> }
HeHolding == [liquid |-> 100, staked |-> 50, delegated_away |-> 10]
HeHoldings == { [sym \in S |-> HeHolding] : S \in SUBSET { <<"A">>, SwapHive } }
\* get_hive_price_usd and get_btc_price_usd: 0 when the source fails
HePrices(value) == { Q(0), value }
\* market.get_trades_history of a symbol: nothing, or one trade of the last
\* day
HeTradeHistories == { <<>>, <<[price |-> 2, volume |-> 30, timestamp |-> Now]>> }
\* a run: its arguments, and what the remote sides answer; `market` has the
\* trades history of every symbol held
HeRuns ==
    UNION { [username : HeUserNames, tokens : HeTokenArgs, holdings : {held},
             hive_usd : HePrices(<<1, 2>>), btc_usd : HePrices(Q(50000)),
             market : [DOMAIN held -> HeTradeHistories]] : held \in HeHoldings }

\* lines 79-93 get_market_info(symbol), on the trades history it fetched;
\* get_24h_volume of lines 76-77 is that of hive_engine_utils.py
he_get_market_info(symbol, trades) ==
    IF trades = <<>>
    THEN IF symbol = SwapHive THEN <<Q(1), Q(0)>> ELSE <<Q(0), Q(0)>>
    ELSE <<Q(trades[1].price), Q(get_24h_volume(trades))>>

\* lines 315-345: the line of a symbol
HeTokenLine(sym, holdings, market, hive_usd, btc_usd) ==
    IF sym \in DOMAIN holdings
    THEN LET info == he_get_market_info(sym, market[sym])
         IN TokenLine(sym, holdings[sym], info[1], info[2], hive_usd, btc_usd)
    ELSE [symbol |-> sym, liquid |-> 0, staked |-> 0, delegated |-> 0,
          price_hive |-> Q(0), price_usd |-> Q(0), volume_24h_usd |-> Q(0),
          total_usd |-> Q(0), total_hive |-> Q(0), total_btc |-> Q(0)]

\* a < b
QLess(a, b) == a[1] * b[2] < b[1] * a[2]
\* sorted(token_data, key=total_usd, reverse=True): stable
RECURSIVE InsertDesc(_, _)
InsertDesc(line, sorted) ==
    IF sorted = <<>> THEN <<line>>
    ELSE IF QLess(Head(sorted).total_usd, line.total_usd) THEN <<line>> \o sorted
    ELSE <<Head(sorted)>> \o InsertDesc(line, Tail(sorted))
RECURSIVE SortedDesc(_)
SortedDesc(lines) ==
    IF lines = <<>> THEN <<>>
    ELSE LET rest == SortedDesc(SubSeq(lines, 1, Len(lines) - 1))
             last == lines[Len(lines)]
         IN IF \E i \in DOMAIN rest : QLess(rest[i].total_usd, last.total_usd)
            THEN InsertDesc(last, rest)
            ELSE Append(rest, last)

\* variant: the ratio printed only when both prices are > 0, as lines
\* 604-605 of take-snapshot.py have it
HeRatioGuarded(hive_price_usd, btc_price_usd) ==
    IF QPos(btc_price_usd) /\ QPos(hive_price_usd)
    THEN <<QDiv(btc_price_usd, hive_price_usd)>> ELSE <<>>

\* lines 149-150: btc_price_usd / hive_price_usd under `if btc_price_usd > 0`;
\* <<>> when nothing is computed
HeRatio(hive_price_usd, btc_price_usd) ==
    IF QPos(btc_price_usd) THEN <<QDiv(btc_price_usd, hive_price_usd)>> ELSE <<>>

\* lines 96-155 display_table
display_table(lines, hive_price_usd, btc_price_usd) ==
    LET sorted_tokens == SortedDesc(lines)
        ratio == HeRatio(hive_price_usd, btc_price_usd)
        table == [rows |-> sorted_tokens,
                  total_usd |-> SumOf(sorted_tokens, "total_usd"),
                  total_hive |-> SumOf(sorted_tokens, "total_hive"),
                  total_btc |-> SumOf(sorted_tokens, "total_btc")]
    IN IF ratio # <<>> /\ IsZeroDivision(ratio[1])
       THEN [kind |-> "raised", exc |-> "ZeroDivisionError", printed |-> <<"table">>,
             table |-> <<table>>, ratio |-> 0]
       ELSE [kind |-> "returned", exc |-> "",
             printed |-> IF ratio = <<>> THEN <<"table">> ELSE <<"table", "ratio">>,
             table |-> <<table>>,
             ratio |-> IF ratio = <<>> THEN 0 ELSE QFloor(ratio[1])]

HeEnded(printed) ==
    [kind |-> "returned", exc |-> "", printed |-> printed, table |-> <<>>, ratio |-> 0]

\* lines 275-363 main
he_main(run) ==
    LET account == Lower(IF run.username # <<>> THEN run.username ELSE HE_DEFAULT_ACCOUNT)
        tokens == IF run.tokens # <<>>
                    THEN [i \in DOMAIN run.tokens |-> UpperStr(run.tokens[i])]
                    ELSE HE_DEFAULT_TOKENS
        he_token_data == [i \in DOMAIN tokens |->
                         HeTokenLine(tokens[i], run.holdings, run.market,
                                     run.hive_usd, run.btc_usd)]
        shown == display_table(he_token_data, run.hive_usd, run.btc_usd)
    IN IF ~validate_username(account).ok THEN HeEnded(<<"Invalid username">>)
       ELSE IF \E i \in DOMAIN tokens : ~he_validate_token(tokens[i]).ok
         THEN HeEnded(<<"Invalid token">>)
       ELSE [shown EXCEPT !.printed = <<"header">> \o shown.printed]

\* one run of the program
HeMain ==
    /\ u_call.op = "main"
    /\ u_call.out = Pending
    /\ u_call' = [u_call EXCEPT !.out = he_main(u_call.arg)]
    /\ UNCHANGED <<fvars, log, mvars, pvars, cvars, hvars, svars, avars, tvars>>

InitHeMain ==
    /\ WholeCallOnly
    /\ u_call \in { WholeCall("main", run) : run \in HeRuns }

NextHeMain == HeMain

SpecHeMain == InitHeMain /\ [][NextHeMain]_vars

HeRan == u_call.op = "main" /\ u_call.out # Pending
\* the run got past its validations
HeShown == HeRan /\ u_call.out.table # <<>>
FiatSourceDown == ~QPos(u_call.arg.hive_usd) /\ QPos(u_call.arg.btc_usd)

\* C33 as stated, for he-tokens-snapshot: with the reference-coin price 0
\* and the secondary-coin price > 0 the run finishes without raising and
\* every fiat value it reports is 0.
C33_Original ==
    (HeRan /\ FiatSourceDown) =>
        /\ u_call.out.kind = "returned"
        /\ HeShown =>
             /\ u_call.out.table[1].total_usd = Q(0)
             /\ \A i \in DOMAIN u_call.out.table[1].rows :
                  u_call.out.table[1].rows[i].total_usd = Q(0)

\* what the code does: such a run that gets past its validations prints the
\* table with every fiat value 0 and then raises ZeroDivisionError; without
\* a secondary-coin price it returns, and no other run raises
C33_TableThenZeroDivision ==
    /\ (HeShown /\ FiatSourceDown) =>
          /\ u_call.out.kind = "raised"
          /\ u_call.out.exc = "ZeroDivisionError"
          /\ u_call.out.printed = <<"header", "table">>
          /\ u_call.out.table[1].total_usd = Q(0)
          /\ \A i \in DOMAIN u_call.out.table[1].rows :
               u_call.out.table[1].rows[i].total_usd = Q(0)
    /\ (HeRan /\ ~FiatSourceDown) => u_call.out.kind = "returned"
    /\ (HeRan /\ ~HeShown) => u_call.out.kind = "returned"

\* holdings of 160 A at 2 HIVE, HIVE at 0 USD, BTC at 50000 USD
C33_RaisedAfterTable ==
    /\ HeShown
    /\ FiatSourceDown
    /\ u_call.out.kind = "raised"
    /\ <<"A">> \in DOMAIN u_call.arg.holdings
    /\ \E i \in DOMAIN u_call.out.table[1].rows :
         /\ u_call.out.table[1].rows[i].total_hive = Q(320)
         /\ u_call.out.table[1].rows[i].total_usd = Q(0)
====
